---- MODULE Spec2Model ----
(***************************************************************************)
(* A model of the IMC-prosperity-3 trading code:                           *)
(*   - backtest/backtester.py      historical replay and fill engine       *)
(*   - tutorial_round/trade_v9_vwap.py   the Trader it replays             *)
(*   - improved_trading_bot.py     the multi-product orchestrator          *)
(*   - round_1/round_1.py          the adaptive VWAP policy for KELP       *)
(* Prices and quantities are integers.  A mid price (a + b) / 2 is kept    *)
(* doubled (a + b) wherever the code keeps the float.                      *)
(***************************************************************************)
EXTENDS Integers, Sequences, FiniteSets, TLC

VARIABLES
    \* ---- backtest/backtester.py: Backtester ----
    ask_sign,           \* sign of the ask_volume_i column of self.data
    data_timestamps,    \* the timestamp column of self.data, in file order
    tick,               \* number of timestamps of self.data consumed so far
    current_positions,  \* self.current_positions
    pnl,                \* self.pnl
    trade_history,      \* self.trade_history
    results,            \* self.results
    aborted,            \* run_backtest left through an exception
    last_fills,         \* per order of the last tick: the order and its outcome
    \* ---- tutorial_round/trade_v9_vwap.py: Trader (self.trader) ----
    kelp_vwap,          \* self.kelp_vwap
    \* ---- round_1/round_1.py: Trader ----
    r1_kelp_prices,     \* self.kelp_prices (each mid price doubled)
    r1_kelp_vwap,       \* self.kelp_vwap
    r1_calls,           \* calls of kelp_strategy so far
    r1_odd,             \* how many of them saw another book than the calm one
    r1_fed,             \* every (doubled) mid price appended so far, in order
    r1_vwap_window,     \* vwap_window of the last call (0: no VWAP update yet)
    r1_orders,          \* the orders the last call returned
    r1_position,        \* state.position of KELP of the last call
    r1_fair_value,      \* fair_value of the last call of kelp_strategy
    rs_orders,          \* the orders the last call of resin_strategy returned,
                        \* their prices in tenths
    rs_position,        \* state.position of RAINFOREST_RESIN of that call
    rs_depth,           \* its order_depth
    \* ---- improved_trading_bot.py: Trader ----
    price_history,          \* self.price_history (each mid price doubled)
    entry_price_map,        \* self.entry_price_map
    position_side_map,      \* self.position_side_map
    sunlight_index_history, \* self.sunlight_index_history (in tenths)
    tick_counter,           \* self.tick_counter
    trader_data,            \* the traderData the last returning run returned
    bot_orders,             \* the order mapping the last run returned
    bot_raised,             \* the last run raised instead of returning
    bot_position,           \* state.position of the last run
    bot_depths,             \* state.order_depths of the last run
    bot_resumed,            \* the last run was given the traderData returned
                            \* by the run just before it
    fresh_orders,           \* what a newly constructed Trader returned for
    fresh_raised,           \* the tick of the last run
    jams_fed,               \* every (doubled) JAMS mid price appended so far
    bot_odd,                \* runs so far on another tick than the base one
    bot_foreign,            \* 0, or the index in ForeignData of the traderData
                            \* the last run was given
    \* ---- round_2/round2_v_1.py: Trader ----
    r2_spread_history,  \* self.historical_data[basket]['spread_history'],
                        \* each spread doubled
    r2_zscore,          \* per basket, the zscore of the last call
    r2_orders,          \* the order mapping the last call returned
    r2_calls,           \* calls of trade_picnic_baskets so far
    r2_odd,             \* how many of them saw another tick than the base one
    r2_arb,             \* per basket, what generate_arb_orders returned in
                        \* the last call (NoArb when it was not called)
    r2_state,           \* the TradingState of the last call
    \* ---- tutorial_round/trade.py: Trader ----
    ema_prices,         \* self.ema_prices, each price times EmaScale
    t1_calls,           \* calls of update_ema_prices so far
    t1_state,           \* state.order_depths of the last call
    t1_default,         \* self.ema_prices before the last call
    t1_mid,             \* per product, what get_mid_price returned in the
                        \* last call, times EmaScale
    \* ---- tutorial_round/trade_v9_vwap.py: fixed_fair_value_orders ----
    v9_depth,           \* order_depth of the last call
    v9_position,        \* position of the last call
    v9_take,            \* the liquidity-taking orders it returned
    v9_post,            \* the posted orders it returned
    \* ---- tutorial_round/trade_v9.py: Trader ----
    kelp_ema_price,     \* self.kelp_ema_price: {} for None, else {price}
    u9_calls,           \* calls of dynamic_fair_value_orders so far
    u9_depth,           \* order_depth of the last call
    u9_position,        \* position of the last call
    u9_fair_value,      \* fair_value of the last call
    u9_orders,          \* the orders the last call returned
    u9_stop,            \* those of them its forced unwind block emitted
    \* ---- round_2/round2_v_3.py: Trader ----
    r3_price_history,   \* self.price_history, each price doubled
    r3_spread_history,  \* self.spread_history, each spread doubled
    r3_orders,          \* the order mapping the last call of run returned
    r3_raised,          \* whether the last call raised
    r3_signal,          \* per basket, what trade_baskets did in the last call
    r3_state,           \* the TradingState of the last call
    r3_seen,            \* per component, the calls so far that showed it a two-sided book
    r3_calls,           \* calls of run so far
    r3_odd,             \* how many of them saw another tick than the base one
    \* ---- round_1/round_v_2.py: Trader.run for SQUID_INK ----
    sq_trader_data,     \* the traderData string returned by the last call of run
    sq_result,          \* the result mapping returned by the last call
    sq_state,           \* the TradingState of the last call
    sq_calls            \* calls of run so far

btVars == <<ask_sign, data_timestamps, tick, current_positions, pnl, trade_history, results,
            aborted, last_fills, kelp_vwap>>

r1Vars == <<r1_kelp_prices, r1_kelp_vwap, r1_calls, r1_odd, r1_fed,
            r1_vwap_window, r1_orders, r1_position, r1_fair_value, rs_orders,
            rs_position, rs_depth>>

botVars == <<price_history, entry_price_map, position_side_map,
             sunlight_index_history, tick_counter, trader_data, bot_orders,
             bot_raised, bot_position, bot_depths, bot_resumed, fresh_orders, fresh_raised,
             jams_fed, bot_odd, bot_foreign>>

r2Vars == <<r2_spread_history, r2_zscore, r2_orders, r2_calls, r2_odd,
            r2_arb, r2_state>>

t1Vars == <<ema_prices, t1_calls, t1_state, t1_default, t1_mid>>
\* tutorial_round/trade_v9_vwap.py, fixed_fair_value_orders called on its own
v9Vars == <<v9_depth, v9_position, v9_take, v9_post>>
\* tutorial_round/trade_v9.py, dynamic_fair_value_orders
u9Vars == <<kelp_ema_price, u9_calls, u9_depth, u9_position, u9_fair_value, u9_orders, u9_stop>>
\* round_2/round2_v_3.py
r3Vars == <<r3_price_history, r3_spread_history, r3_orders, r3_raised, r3_signal, r3_state, r3_seen, r3_calls, r3_odd>>
\* round_1/round_v_2.py
sqVars == <<sq_trader_data, sq_result, sq_state, sq_calls>>

vars == <<btVars, r1Vars, botVars, r2Vars, t1Vars, v9Vars, u9Vars, r3Vars, sqVars>>

\* what an action of one component leaves alone
BtOthers == <<r1Vars, botVars, r2Vars, t1Vars, v9Vars, u9Vars, r3Vars, sqVars>>
R1Others == <<btVars, botVars, r2Vars, t1Vars, v9Vars, u9Vars, r3Vars, sqVars>>
BotOthers == <<btVars, r1Vars, r2Vars, t1Vars, v9Vars, u9Vars, r3Vars, sqVars>>
R2Others == <<btVars, r1Vars, botVars, t1Vars, v9Vars, u9Vars, r3Vars, sqVars>>
T1Others == <<btVars, r1Vars, botVars, r2Vars, v9Vars, u9Vars, r3Vars, sqVars>>
V9Others == <<btVars, r1Vars, botVars, r2Vars, t1Vars, u9Vars, r3Vars, sqVars>>
U9Others == <<btVars, r1Vars, botVars, r2Vars, t1Vars, v9Vars, r3Vars, sqVars>>
R3Others == <<btVars, r1Vars, botVars, r2Vars, t1Vars, v9Vars, u9Vars, sqVars>>
SqOthers == <<btVars, r1Vars, botVars, r2Vars, t1Vars, v9Vars, u9Vars, r3Vars>>

-----------------------------------------------------------------------------
(* Bounds of the model *)

\* timestamps in the replayed file
MaxTicks == 3
\* direct calls of _process_order in the fill harness
MaxDirectOrders == 2
\* calls of round_1's kelp_strategy
MaxKelpCalls == 23
\* calls of kelp_strategy that see another book than the calm one
MaxOddBooks == 2
\* calls of improved_trading_bot's Trader.run
MaxBotTicks == 21
\* calls of Trader.run on another tick than the base one
MaxOddTicks == 1
\* samples fed to a rolling window beyond its capacity
MaxOverflow == 2
MaxForeignTicks == 3
\* calls of round2_v_1's trade_picnic_baskets
MaxPicnicCalls == 21
\* calls of trade_picnic_baskets on another tick than the base one
MaxOddSpreads == 1
\* calls of tutorial_round/trade.py's update_ema_prices
MaxEmaCalls == 3
\* calls of kelp_strategy on thin books
MaxThinCalls == 4
\* calls of round2_v_3's Trader.run
MaxBasketCalls == 21
\* calls of it on another tick than the base one
MaxOddBaskets == 1
\* calls of tutorial_round/trade_v9.py's dynamic_fair_value_orders
MaxUnwindCalls == 3
\* calls of round_v_2's Trader.run
MaxSquidCalls == 4

-----------------------------------------------------------------------------
(* Generic helpers *)

SetMin(S) == CHOOSE x \in S : \A y \in S : x <= y
SetMax(S) == CHOOSE x \in S : \A y \in S : x >= y
Min2(a, b) == IF a <= b THEN a ELSE b
Max2(a, b) == IF a >= b THEN a ELSE b
Abs(a) == IF a < 0 THEN -a ELSE a

\* int(a / b) of Python for b # 0: the quotient truncated toward zero
TruncDiv(a, b) ==
    IF (a >= 0) = (b > 0) THEN Abs(a) \div Abs(b) ELSE -(Abs(a) \div Abs(b))

RECURSIVE SumVwapVol(_)
SumVwapVol(s) ==
    IF s = <<>> THEN 0 ELSE Head(s).vwap * Head(s).vol + SumVwapVol(Tail(s))

RECURSIVE SumVol(_)
SumVol(s) == IF s = <<>> THEN 0 ELSE Head(s).vol + SumVol(Tail(s))

\* s[-n:] of Python, n > 0
LastN(s, n) == IF Len(s) <= n THEN s ELSE SubSeq(s, Len(s) - n + 1, Len(s))

\* datamodel.Order(symbol, price, quantity)
Order(symbol, price, quantity) ==
    [symbol |-> symbol, price |-> price, quantity |-> quantity]

\* datamodel.OrderDepth: two dicts price -> volume
OrderDepth(buys, sells) == [buy_orders |-> buys, sell_orders |-> sells]

EmptyDict == <<>>

-----------------------------------------------------------------------------
(* tutorial_round/trade_v9_vwap.py *)

FairValueResin == 10000
WidthResin == 2
PositionLimit == 50
KelpTimespan == 10

\* Trader.fixed_fair_value_orders: the liquidity-taking orders (lines 38-59)
\* and the posted ones (lines 61-68), in the order they are appended
fixed_fair_value_parts(product, order_depth, fair_value, width, position, position_limit) ==
    LET sells == order_depth.sell_orders
        buys == order_depth.buy_orders
        above == {p \in DOMAIN sells : p > fair_value + width}
        below == {p \in DOMAIN buys : p < fair_value - width}
        baaf == IF above = {} THEN fair_value + width + 1 ELSE SetMin(above)
        bbbf == IF below = {} THEN fair_value - width - 1 ELSE SetMax(below)
        best_ask == SetMin(DOMAIN sells)
        best_bid == SetMax(DOMAIN buys)
        take_buy == IF DOMAIN sells # {} /\ best_ask <= fair_value - width
                    THEN Min2(-sells[best_ask], position_limit - position)
                    ELSE 0
        buy_order_volume == IF take_buy > 0 THEN take_buy ELSE 0
        take_sell == IF DOMAIN buys # {} /\ best_bid >= fair_value + width
                     THEN Min2(buys[best_bid], position_limit + position)
                     ELSE 0
        sell_order_volume == IF take_sell > 0 THEN take_sell ELSE 0
        buy_quantity == position_limit - (position + buy_order_volume)
        sell_quantity == position_limit + (position - sell_order_volume)
    IN  [take |-> (IF take_buy > 0 THEN <<Order(product, best_ask, take_buy)>> ELSE <<>>)
                  \o (IF take_sell > 0 THEN <<Order(product, best_bid, -take_sell)>> ELSE <<>>),
         post |-> (IF buy_quantity > 0 THEN <<Order(product, bbbf + 1, buy_quantity)>> ELSE <<>>)
                  \o (IF sell_quantity > 0 THEN <<Order(product, baaf - 1, -sell_quantity)>> ELSE <<>>)]

\* Trader.fixed_fair_value_orders
fixed_fair_value_orders(product, order_depth, fair_value, width, position, position_limit) ==
    LET parts == fixed_fair_value_parts(product, order_depth, fair_value, width,
                                        position, position_limit)
    IN  parts.take \o parts.post

\* Trader.dynamic_fair_value_orders, lines 86-112: the VWAP history after the
\* tick's entry is appended (unchanged when a side of the book is empty)
dynamic_vwap_update(vwap_hist, order_depth, timespan) ==
    LET sells == order_depth.sell_orders
        buys == order_depth.buy_orders
        best_ask == SetMin(DOMAIN sells)
        best_bid == SetMax(DOMAIN buys)
        ask_volume == -sells[best_ask]
        bid_volume == buys[best_bid]
        total_volume == ask_volume + bid_volume
        current_vwap == IF total_volume > 0
                        THEN TruncDiv(best_bid * ask_volume + best_ask * bid_volume,
                                      total_volume)
                        ELSE (best_ask + best_bid) \div 2
        appended == Append(vwap_hist, [vol |-> total_volume, vwap |-> current_vwap])
    IN  IF DOMAIN sells = {} \/ DOMAIN buys = {} THEN vwap_hist
        ELSE IF Len(appended) > timespan THEN Tail(appended) ELSE appended

\* Trader.dynamic_fair_value_orders, lines 104-151: the orders, given the
\* VWAP history already updated for this tick.  take_width is 1.5, kept
\* doubled (TakeWidth2 = 3) so that the comparisons stay in the integers.
TakeWidth2 == 3

dynamic_fair_value_orders(product, order_depth, vwap_hist, position, position_limit) ==
    LET sells == order_depth.sell_orders
        buys == order_depth.buy_orders
        best_ask == SetMin(DOMAIN sells)
        best_bid == SetMax(DOMAIN buys)
        ask_volume == -sells[best_ask]
        bid_volume == buys[best_bid]
        current_vwap == vwap_hist[Len(vwap_hist)].vwap
        total_vol == SumVol(vwap_hist)
        fair_value == IF total_vol > 0
                      THEN TruncDiv(SumVwapVol(vwap_hist), total_vol)
                      ELSE current_vwap
        take_buy == IF 2 * best_ask <= 2 * fair_value - TakeWidth2
                    THEN Min2(ask_volume, position_limit - position)
                    ELSE 0
        buy_order_volume == IF take_buy > 0 THEN take_buy ELSE 0
        take_sell == IF 2 * best_bid >= 2 * fair_value + TakeWidth2
                     THEN Min2(bid_volume, position_limit + position)
                     ELSE 0
        sell_order_volume == IF take_sell > 0 THEN take_sell ELSE 0
        above == {p \in DOMAIN sells : p > fair_value + 1}
        below == {p \in DOMAIN buys : p < fair_value - 1}
        baaf == IF above = {} THEN fair_value + 2 ELSE SetMin(above)
        bbbf == IF below = {} THEN fair_value - 2 ELSE SetMax(below)
        buy_quantity == position_limit - (position + buy_order_volume)
        sell_quantity == position_limit + (position - sell_order_volume)
    IN  IF DOMAIN sells = {} \/ DOMAIN buys = {} THEN <<>>
        ELSE
        (IF take_buy > 0 THEN <<Order(product, best_ask, take_buy)>> ELSE <<>>)
        \o (IF take_sell > 0 THEN <<Order(product, best_bid, -take_sell)>> ELSE <<>>)
        \o (IF buy_quantity > 0 THEN <<Order(product, bbbf + 1, buy_quantity)>> ELSE <<>>)
        \o (IF sell_quantity > 0 THEN <<Order(product, baaf - 1, -sell_quantity)>> ELSE <<>>)

PositionOf(position, product) ==
    IF product \in DOMAIN position THEN position[product] ELSE 0

\* Trader.run: the orders of result in the order run_backtest walks them
\* (result's keys in insertion order, each key's list in order), and the new
\* VWAP history
TraderRun(vwap_hist, order_depths, position) ==
    LET resin == IF "RAINFOREST_RESIN" \in DOMAIN order_depths
                 THEN fixed_fair_value_orders("RAINFOREST_RESIN",
                          order_depths["RAINFOREST_RESIN"], FairValueResin, WidthResin,
                          PositionOf(position, "RAINFOREST_RESIN"), PositionLimit)
                 ELSE <<>>
        hist == IF "KELP" \in DOMAIN order_depths
                THEN dynamic_vwap_update(vwap_hist, order_depths["KELP"], KelpTimespan)
                ELSE vwap_hist
        kelp == IF "KELP" \in DOMAIN order_depths
                THEN dynamic_fair_value_orders("KELP", order_depths["KELP"], hist,
                          PositionOf(position, "KELP"), PositionLimit)
                ELSE <<>>
    IN  [orders |-> resin \o kelp, kelp_vwap |-> hist]

-----------------------------------------------------------------------------
(* backtest/backtester.py *)

Products == {"RAINFOREST_RESIN", "KELP"}

\* The Backtester fields the fill step works on, with the per-order outcomes
\* of the tick (fills) and whether an exception has left the replay (aborted)
BtState(positions, cash, history) ==
    [current_positions |-> positions, pnl |-> cash, trade_history |-> history,
     fills |-> <<>>, aborted |-> FALSE]

\* _record_trade with the cash of a sell booked like that of a buy
RecordTradeCashUnsigned(bt, product, price, quantity, side, timestamp) ==
    IF product \notin DOMAIN bt.current_positions
    THEN [bt EXCEPT !.aborted = TRUE]
    ELSE [bt EXCEPT
            !.current_positions[product] =
                @ + (IF side = "buy" THEN quantity ELSE -quantity),
            !.pnl = @ - quantity * price,
            !.trade_history = Append(@,
                [timestamp |-> timestamp, product |-> product, price |-> price,
                 quantity |-> quantity, side |-> side])]

\* Backtester._record_trade
RecordTrade(bt, product, price, quantity, side, timestamp) ==
    IF product \notin DOMAIN bt.current_positions
    THEN [bt EXCEPT !.aborted = TRUE]       \* KeyError
    ELSE [bt EXCEPT
            !.current_positions[product] =
                @ + (IF side = "buy" THEN quantity ELSE -quantity),
            !.pnl = @ + quantity * (price * (IF side = "buy" THEN -1 ELSE 1)),
            !.trade_history = Append(@,
                [timestamp |-> timestamp, product |-> product, price |-> price,
                 quantity |-> quantity, side |-> side])]

\* What one call of _process_order did with its order
Outcome(order, order_depth, filled, side, price, quantity) ==
    [order |-> order, depth |-> order_depth, filled |-> filled, side |-> side,
     price |-> price, quantity |-> quantity]

\* Backtester._process_order
ProcessOrder(bt, product, order, order_depth, timestamp) ==
    LET sells == order_depth.sell_orders
        buys == order_depth.buy_orders
        best_ask == SetMin(DOMAIN sells)
        best_bid == SetMax(DOMAIN buys)
        buy_qty == Min2(order.quantity, sells[best_ask])
        sell_qty == Min2(Abs(order.quantity), buys[best_bid])
        noted(o) == [bt EXCEPT !.fills = Append(@, o)]
    IN  IF order.quantity > 0
        THEN IF DOMAIN sells = {}
             THEN [bt EXCEPT !.aborted = TRUE]      \* min() of an empty sequence
             ELSE IF order.price >= best_ask
                  THEN RecordTrade(
                           noted(Outcome(order, order_depth, TRUE, "buy", best_ask, buy_qty)),
                           product, best_ask, buy_qty, "buy", timestamp)
                  ELSE noted(Outcome(order, order_depth, FALSE, "buy", 0, 0))
        ELSE IF DOMAIN buys = {}
             THEN [bt EXCEPT !.aborted = TRUE]      \* max() of an empty sequence
             ELSE IF order.price <= best_bid
                  THEN RecordTrade(
                           noted(Outcome(order, order_depth, TRUE, "sell", best_bid, sell_qty)),
                           product, best_bid, sell_qty, "sell", timestamp)
                  ELSE noted(Outcome(order, order_depth, FALSE, "sell", 0, 0))

\* run_backtest step 4: every returned order against the tick's own book,
\* until one raises
RECURSIVE ProcessOrders(_, _, _, _)
ProcessOrders(bt, orders, order_depths, timestamp) ==
    IF orders = <<>> \/ bt.aborted THEN bt
    ELSE LET order == Head(orders)
         IN  IF order.symbol \notin DOMAIN order_depths
             THEN [bt EXCEPT !.aborted = TRUE]      \* KeyError
             ELSE ProcessOrders(
                      ProcessOrder(bt, order.symbol, order,
                                   order_depths[order.symbol], timestamp),
                      Tail(orders), order_depths, timestamp)

RECURSIVE SumQuantity(_)
SumQuantity(s) == IF s = <<>> THEN 0 ELSE Head(s).quantity + SumQuantity(Tail(s))

\* run_backtest steps 1 and 5: the row of one timestamp.  pnl is read when
\* the row is created, the positions and the volume after the fills.
ResultRow(timestamp, pnl_at_start, bt) ==
    [timestamp |-> timestamp,
     pnl |-> pnl_at_start,
     RAINFOREST_RESIN_position |-> bt.current_positions["RAINFOREST_RESIN"],
     KELP_position |-> bt.current_positions["KELP"],
     total_volume |-> SumQuantity(LastN(bt.trade_history, 10))]

\* Rows of the historical file, as the books run_backtest builds from them.
\* v is the ask_volume column's sign: -1 when the file holds the data model's
\* negative ask volumes, +1 when it holds sizes.
ResinBooks(v) == <<
    OrderDepth(9995 :> 10, 9997 :> 30 * v),
    OrderDepth(10005 :> 20, 10007 :> 10 * v),
    OrderDepth(9998 :> 4, 10002 :> 4 * v),
    OrderDepth(9996 :> 10, EmptyDict) >>

KelpBooks(v) == <<
    OrderDepth(2000 :> 5, 2004 :> 5 * v),
    OrderDepth(2010 :> 8, 2012 :> 3 * v),
    OrderDepth(2001 :> 6, EmptyDict) >>

\* order_depths of one timestamp: row r of ResinBooks and row k of KelpBooks,
\* 0 for a product with no row at this timestamp
OrderDepths(v, r, k) ==
    LET resin == IF r = 0 THEN EmptyDict
                 ELSE "RAINFOREST_RESIN" :> ResinBooks(v)[r]
        kelp == IF k = 0 THEN EmptyDict ELSE "KELP" :> KelpBooks(v)[k]
    IN  resin @@ kelp

Timestamp(n) == 100 * n

\* The timestamp column of a file with MaxTicks timestamps: rows in
\* increasing order, in decreasing order, and two rows per timestamp with the
\* second rows in another order than the first
Ascending == [i \in 1..MaxTicks |-> Timestamp(i - 1)]
Descending == [i \in 1..MaxTicks |-> Timestamp(MaxTicks - i)]
FileOrders == {Ascending, Descending, Descending \o Ascending}

\* the keys of a sorted set, in order
RECURSIVE SortedSeq(_)
SortedSeq(S) ==
    IF S = {} THEN <<>> ELSE <<SetMin(S)>> \o SortedSeq(S \ {SetMin(S)})

\* self.data.groupby('timestamp'): the distinct timestamps, sorted
GroupKeys(timestamps) ==
    SortedSeq({timestamps[i] : i \in 1..Len(timestamps)})

BtInit ==
    /\ ask_sign \in {-1, 1}
    /\ data_timestamps \in FileOrders
    /\ tick = 0
    /\ current_positions = [p \in Products |-> 0]
    /\ pnl = 0
    /\ trade_history = <<>>
    /\ results = <<>>
    /\ aborted = FALSE
    /\ last_fills = <<>>
    /\ kelp_vwap = <<>>

\* One iteration of run_backtest's loop over the timestamps, the group's
\* RAINFOREST_RESIN row being one of resin_rows
BacktestTick(resin_rows) ==
    /\ ~aborted
    /\ tick < Len(GroupKeys(data_timestamps))
    /\ \E r \in resin_rows, k \in 0..Len(KelpBooks(ask_sign)) :
        /\ r + k > 0
        /\ LET order_depths == OrderDepths(ask_sign, r, k)
               timestamp == GroupKeys(data_timestamps)[tick + 1]
               run == TraderRun(kelp_vwap, order_depths, current_positions)
               bt == ProcessOrders(BtState(current_positions, pnl, trade_history),
                                   run.orders, order_depths, timestamp)
           IN  /\ kelp_vwap' = run.kelp_vwap
               /\ current_positions' = bt.current_positions
               /\ pnl' = bt.pnl
               /\ trade_history' = bt.trade_history
               /\ last_fills' = bt.fills
               /\ aborted' = bt.aborted
               /\ results' = IF bt.aborted THEN results
                             ELSE Append(results, ResultRow(timestamp, pnl, bt))
    /\ tick' = tick + 1
    /\ UNCHANGED <<ask_sign, data_timestamps>>
    /\ UNCHANGED BtOthers

\* One iteration of the loop on a file with any rows
RunBacktestTick == BacktestTick(0..Len(ResinBooks(ask_sign)))

\* The RAINFOREST_RESIN rows of the three-tick scenario: best ask 9997, then
\* best bid 10005, then the flat book 9998 / 10002
ScenarioRows == <<1, 2, 3>>

\* One iteration of the loop on a file whose RAINFOREST_RESIN rows are the
\* scenario's
ScenarioTick ==
    /\ tick < Len(ScenarioRows)
    /\ BacktestTick({ScenarioRows[tick + 1]})

\* The fill harness: _process_order called directly, as a unit test does
DirectBooks(v) == <<
    OrderDepth(99 :> 10, 101 :> 5 * v),
    OrderDepth(99 :> 10 @@ 98 :> 7, 101 :> 5 * v @@ 103 :> 9 * v) >>

DirectOrders == {
    Order("KELP", 101, 8), Order("KELP", 100, 8), Order("KELP", 102, 3),
    Order("KELP", 99, -4), Order("KELP", 100, -4), Order("KELP", 98, -20),
    Order("KELP", 99, 0) }

DirectProcessOrder ==
    /\ ~aborted
    /\ tick < MaxDirectOrders
    /\ \E b \in 1..Len(DirectBooks(ask_sign)), order \in DirectOrders :
        LET bt == ProcessOrder(BtState(current_positions, pnl, trade_history),
                               order.symbol, order, DirectBooks(ask_sign)[b],
                               Timestamp(tick))
        IN  /\ current_positions' = bt.current_positions
            /\ pnl' = bt.pnl
            /\ trade_history' = bt.trade_history
            /\ last_fills' = bt.fills
            /\ aborted' = bt.aborted
    /\ tick' = tick + 1
    /\ UNCHANGED <<ask_sign, data_timestamps, results, kelp_vwap>>
    /\ UNCHANGED BtOthers

-----------------------------------------------------------------------------
(* round_1/round_1.py: kelp_strategy *)

KelpPricesCap == 40
VolatilityWindow == 20
VolatilityThreshold == 4
VwapWindowVolatile == 8
VwapWindowCalm == 16

\* a // b of Python on integers, b # 0: the floor of the quotient
FloorDiv(a, b) == IF b > 0 THEN a \div b ELSE (-a) \div (-b)

\* sum(s[:n]) and sum(x * x for x in s[:n])
RECURSIVE SumFirst(_, _)
SumFirst(s, n) == IF n = 0 THEN 0 ELSE s[n] + SumFirst(s, n - 1)

RECURSIVE SumSquaresFirst(_, _)
SumSquaresFirst(s, n) == IF n = 0 THEN 0 ELSE s[n] * s[n] + SumSquaresFirst(s, n - 1)

SumSeq(s) == SumFirst(s, Len(s))
SumSquares(s) == SumSquaresFirst(s, Len(s))

\* s with c subtracted from every element (a variance does not change)
Shifted(s, c) == [i \in 1..Len(s) |-> s[i] - c]

\* statistics.stdev(prices) > threshold, for the doubled prices ys, n >= 2:
\* the sample variance of the prices is (n*sum(y^2) - sum(y)^2) / (4*n*(n-1))
StdevAbove(ys, threshold) ==
    LET n == Len(ys)
        zs == Shifted(ys, ys[1])
    IN  n * SumSquares(zs) - SumSeq(zs) * SumSeq(zs)
            > 4 * threshold * threshold * n * (n - 1)

\* lines 58-60: the price window after the tick's mid price
KelpPricesAppend(prices, mid2) ==
    LET appended == Append(prices, mid2)
    IN  IF Len(appended) > KelpPricesCap THEN Tail(appended) ELSE appended

\* lines 62-64
VwapWindow(prices) ==
    IF Len(prices) >= VolatilityWindow
       /\ StdevAbove(LastN(prices, VolatilityWindow), VolatilityThreshold)
    THEN VwapWindowVolatile
    ELSE VwapWindowCalm

\* lines 69-71: the VWAP history after the tick's entry
KelpVwapAppend(hist, entry, vwap_window) ==
    LET appended == Append(hist, entry)
    IN  IF Len(appended) > vwap_window THEN Tail(appended) ELSE appended

\* lines 73-76 falling back to the oldest entry of the window
KelpFairValueOldest(hist, int_mid) ==
    IF SumVol(hist) # 0 THEN FloorDiv(SumVwapVol(hist), SumVol(hist))
    ELSE hist[1].vwap

\* lines 73-76: the fair value from the VWAP window after the tick's entry
KelpFairValue(hist, int_mid) ==
    IF SumVol(hist) # 0 THEN FloorDiv(SumVwapVol(hist), SumVol(hist))
    ELSE int_mid

\* Trader.kelp_strategy: the orders and the two histories after the call
kelp_strategy(product, order_depth, position, position_limit, prices, hist) ==
    LET sells == order_depth.sell_orders
        buys == order_depth.buy_orders
        best_ask == SetMin(DOMAIN sells)
        best_bid == SetMax(DOMAIN buys)
        ask_vol == -sells[best_ask]
        bid_vol == buys[best_bid]
        mid2 == best_ask + best_bid
        int_mid == TruncDiv(mid2, 2)
        prices1 == KelpPricesAppend(prices, mid2)
        vwap_window == VwapWindow(prices1)
        total_vol0 == ask_vol + bid_vol
        current_vwap == IF total_vol0 # 0
                        THEN FloorDiv(best_bid * ask_vol + best_ask * bid_vol, total_vol0)
                        ELSE int_mid
        hist1 == KelpVwapAppend(hist, [vwap |-> current_vwap, vol |-> total_vol0],
                                vwap_window)
        fair_value == KelpFairValue(hist1, int_mid)
        spread == best_ask - best_bid
        min_edge == Max2(1, TruncDiv(3 * spread, 10))
        take_spread == Max2(2, TruncDiv(6 * spread, 10))
        take_buy == IF spread >= take_spread /\ fair_value - best_ask >= min_edge
                    THEN Min2(ask_vol, position_limit - position) ELSE 0
        take_sell == IF spread >= take_spread /\ best_bid - fair_value >= min_edge
                     THEN Min2(bid_vol, position_limit + position) ELSE 0
        above == {p \in DOMAIN sells : p > fair_value + 1}
        below == {p \in DOMAIN buys : p < fair_value - 1}
        baaf == IF above = {} THEN fair_value + 2 ELSE SetMin(above)
        bbbf == IF below = {} THEN fair_value - 2 ELSE SetMax(below)
        buy_qty == position_limit - position
        sell_qty == position_limit + position
    IN  IF DOMAIN sells = {} \/ DOMAIN buys = {}
        THEN [orders |-> <<>>, kelp_prices |-> prices, kelp_vwap |-> hist,
              vwap_window |-> 0, fair_value |-> 0]
        ELSE [orders |->
                (IF take_buy > 0 THEN <<Order(product, best_ask, take_buy)>> ELSE <<>>)
                \o (IF take_sell > 0 THEN <<Order(product, best_bid, -take_sell)>> ELSE <<>>)
                \o (IF buy_qty > 0 THEN <<Order(product, bbbf + 1, buy_qty)>> ELSE <<>>)
                \o (IF sell_qty > 0 THEN <<Order(product, baaf - 1, -sell_qty)>> ELSE <<>>),
              kelp_prices |-> prices1, kelp_vwap |-> hist1,
              vwap_window |-> vwap_window, fair_value |-> fair_value]

\* KELP books the Trader is called with (ask volumes negative, as the
\* data model stores them): 1 is the calm book, the others are the odd ones
R1KelpBooks == <<
    OrderDepth(2000 :> 5, 2004 :> -5),
    OrderDepth(2020 :> 8, 2024 :> -3),
    OrderDepth(2001 :> 6, EmptyDict) >>

\* state.position of KELP the Trader is called with
R1Positions == {-50, 0, 50}

R1Init ==
    /\ r1_kelp_prices = <<>>
    /\ r1_kelp_vwap = <<>>
    /\ r1_calls = 0
    /\ r1_odd = 0
    /\ r1_fed = <<>>
    /\ r1_vwap_window = 0
    /\ r1_orders = <<>>
    /\ r1_position = 0
    /\ r1_fair_value = 0
    /\ rs_orders = <<>>
    /\ rs_position = 0
    /\ rs_depth = OrderDepth(EmptyDict, EmptyDict)

\* One call of kelp_strategy from Trader.run
KelpStrategyCall ==
    /\ r1_calls < MaxKelpCalls
    /\ \E b \in 1..Len(R1KelpBooks), position \in R1Positions :
        /\ b # 1 => r1_odd < MaxOddBooks
        /\ LET depth == R1KelpBooks[b]
               twoSided == DOMAIN depth.sell_orders # {} /\ DOMAIN depth.buy_orders # {}
               r == kelp_strategy("KELP", depth, position, PositionLimit,
                                  r1_kelp_prices, r1_kelp_vwap)
           IN  /\ r1_kelp_prices' = r.kelp_prices
               /\ r1_kelp_vwap' = r.kelp_vwap
               /\ r1_vwap_window' = r.vwap_window
               /\ r1_orders' = r.orders
               /\ r1_fair_value' = r.fair_value
               /\ r1_fed' = IF twoSided
                            THEN Append(r1_fed, SetMin(DOMAIN depth.sell_orders)
                                                + SetMax(DOMAIN depth.buy_orders))
                            ELSE r1_fed
               /\ r1_odd' = IF b = 1 THEN r1_odd ELSE r1_odd + 1
               /\ r1_position' = position
    /\ r1_calls' = r1_calls + 1
    /\ UNCHANGED <<rs_orders, rs_position, rs_depth>>
    /\ UNCHANGED R1Others

\* The n-th book of a rising KELP market
R1RisingBook(n) == OrderDepth((2000 + n) :> 5, (2004 + n) :> -5)

\* One call of kelp_strategy from Trader.run on the next book of the rising
\* market, position 0
KelpFeed ==
    /\ r1_calls < KelpPricesCap + MaxOverflow
    /\ LET depth == R1RisingBook(r1_calls)
           r == kelp_strategy("KELP", depth, 0, PositionLimit,
                              r1_kelp_prices, r1_kelp_vwap)
       IN  /\ r1_kelp_prices' = r.kelp_prices
           /\ r1_kelp_vwap' = r.kelp_vwap
           /\ r1_vwap_window' = r.vwap_window
           /\ r1_orders' = r.orders
           /\ r1_fair_value' = r.fair_value
           /\ r1_fed' = Append(r1_fed, SetMin(DOMAIN depth.sell_orders)
                                       + SetMax(DOMAIN depth.buy_orders))
    /\ r1_calls' = r1_calls + 1
    /\ r1_position' = 0
    /\ UNCHANGED <<r1_odd, rs_orders, rs_position, rs_depth>>
    /\ UNCHANGED R1Others

\* KELP books whose best levels rest little or nothing
R1ThinBooks == <<
    OrderDepth(2000 :> 0, 2004 :> 0),
    OrderDepth(2003 :> 0, 2006 :> 0),
    OrderDepth(2000 :> 0, 2004 :> -5),
    OrderDepth(2000 :> 5, 2004 :> -5),
    OrderDepth(2010 :> 3, 2013 :> -1) >>

\* One call of kelp_strategy from Trader.run on a thin book, position 0
KelpThinCall ==
    /\ r1_calls < MaxThinCalls
    /\ \E b \in 1..Len(R1ThinBooks) :
        LET depth == R1ThinBooks[b]
            r == kelp_strategy("KELP", depth, 0, PositionLimit,
                               r1_kelp_prices, r1_kelp_vwap)
        IN  /\ r1_kelp_prices' = r.kelp_prices
            /\ r1_kelp_vwap' = r.kelp_vwap
            /\ r1_vwap_window' = r.vwap_window
            /\ r1_orders' = r.orders
            /\ r1_fair_value' = r.fair_value
            /\ r1_fed' = Append(r1_fed, SetMin(DOMAIN depth.sell_orders)
                                        + SetMax(DOMAIN depth.buy_orders))
    /\ r1_calls' = r1_calls + 1
    /\ r1_position' = 0
    /\ UNCHANGED <<r1_odd, rs_orders, rs_position, rs_depth>>
    /\ UNCHANGED R1Others

\* Trader.run's arguments of resin_strategy, in tenths: fair_value=10000,
\* width=1.8
R1FairValue10 == 100000
R1Width10 == 18

\* Trader.resin_strategy.  fair_value and width are in tenths, and so are
\* the prices of the orders it returns (a book's prices are integers).
resin_strategy(product, order_depth, fair_value10, width10, position, position_limit) ==
    LET sells == order_depth.sell_orders
        buys == order_depth.buy_orders
        best_ask == SetMin(DOMAIN sells)
        best_bid == SetMax(DOMAIN buys)
        take_buy == IF DOMAIN sells # {} /\ 10 * best_ask <= fair_value10 - width10
                    THEN Min2(-sells[best_ask], position_limit - position)
                    ELSE 0
        take_sell == IF DOMAIN buys # {} /\ 10 * best_bid >= fair_value10 + width10
                     THEN Min2(buys[best_bid], position_limit + position)
                     ELSE 0
        above == {p \in DOMAIN sells : 10 * p > fair_value10 + width10}
        below == {p \in DOMAIN buys : 10 * p < fair_value10 - width10}
        baaf10 == IF above = {} THEN fair_value10 + width10 + 10 ELSE 10 * SetMin(above)
        bbbf10 == IF below = {} THEN fair_value10 - width10 - 10 ELSE 10 * SetMax(below)
        buy_qty == position_limit - position
        sell_qty == position_limit + position
    IN  (IF take_buy > 0 THEN <<Order(product, 10 * best_ask, take_buy)>> ELSE <<>>)
        \o (IF take_sell > 0 THEN <<Order(product, 10 * best_bid, -take_sell)>> ELSE <<>>)
        \o (IF buy_qty > 0 THEN <<Order(product, bbbf10 + 10, buy_qty)>> ELSE <<>>)
        \o (IF sell_qty > 0 THEN <<Order(product, baaf10 - 10, -sell_qty)>> ELSE <<>>)

\* RAINFOREST_RESIN books the Trader is called with
R1ResinBooks == <<
    OrderDepth(9996 :> 10, 10004 :> -10),
    OrderDepth(9995 :> 10, 9998 :> -30),
    OrderDepth(10002 :> 20, 10005 :> -10),
    OrderDepth(9999 :> 5, 10001 :> -5),
    OrderDepth(9997 :> 5 @@ 9999 :> 2, 10003 :> -5 @@ 10001 :> -2),
    OrderDepth(9996 :> 10, EmptyDict),
    OrderDepth(EmptyDict, 10004 :> -10),
    OrderDepth(EmptyDict, EmptyDict) >>

\* state.position of RAINFOREST_RESIN the Trader is called with
R1ResinPositions == {-50, -49, -30, -20, -10, -1, 0, 1, 10, 20, 30, 49, 50}

\* One call of resin_strategy from Trader.run
ResinStrategyCall ==
    /\ \E b \in 1..Len(R1ResinBooks), position \in R1ResinPositions :
        /\ rs_orders' = resin_strategy("RAINFOREST_RESIN", R1ResinBooks[b],
                                       R1FairValue10, R1Width10, position,
                                       PositionLimit)
        /\ rs_position' = position
        /\ rs_depth' = R1ResinBooks[b]
    /\ UNCHANGED <<r1_kelp_prices, r1_kelp_vwap, r1_calls, r1_odd, r1_fed,
                   r1_vwap_window, r1_orders, r1_position, r1_fair_value>>
    /\ UNCHANGED R1Others

-----------------------------------------------------------------------------
(* improved_trading_bot.py: the policies *)

\* The symbols of the model: one for every branch of Trader.run, with the
\* components of the baskets
BotSymbolOrder == <<
    "KELP", "VOLCANIC_ROCK", "VOLCANIC_ROCK_VOUCHER_10000", "SQUID_INK",
    "RAINFOREST_RESIN", "CROISSANTS", "JAMS", "DJEMBES", "PICNIC_BASKET1",
    "PICNIC_BASKET2", "MAGNIFICENT_MACARONS" >>

BotSymbols == {BotSymbolOrder[i] : i \in 1..Len(BotSymbolOrder)}

\* Trader.asset_limits
AssetLimit(symbol) ==
    CASE symbol = "KELP" -> 50
      [] symbol = "VOLCANIC_ROCK" -> 400
      [] symbol = "SQUID_INK" -> 50
      [] symbol = "RAINFOREST_RESIN" -> 50
      [] symbol = "DJEMBES" -> 60
      [] symbol = "CROISSANTS" -> 250
      [] symbol = "JAMS" -> 350
      [] symbol = "PICNIC_BASKET1" -> 60
      [] symbol = "PICNIC_BASKET2" -> 100
      [] symbol = "MAGNIFICENT_MACARONS" -> 75
      [] symbol = "VOLCANIC_ROCK_VOUCHER_10000" -> 200

\* int(symbol.split("_")[-1]) of the voucher symbols
Strike(symbol) ==
    CASE symbol = "VOLCANIC_ROCK_VOUCHER_10000" -> 10000

PriceHistoryCap == 200

\* A policy's outcome: the Trader after it, and its orders or the fact that
\* it raised
Returned(self, orders) == [self |-> self, orders |-> orders, raised |-> FALSE]
Raised(self) == [self |-> self, orders |-> <<>>, raised |-> TRUE]

HasBids(depth) == DOMAIN depth.buy_orders # {}
HasAsks(depth) == DOMAIN depth.sell_orders # {}

\* n * sum(z^2) - sum(z)^2 for the prices ys shifted by their first: n^2
\* times the population variance of ys
VarianceN2(ys) ==
    LET zs == Shifted(ys, ys[1])
    IN  Len(ys) * SumSquares(zs) - SumSeq(zs) * SumSeq(zs)

\* n * (2 * mean of the prices - 2 * price), for the doubled prices ys
MeanMinusPriceN(ys, price) ==
    Len(ys) * (ys[1] - 2 * price) + SumSeq(Shifted(ys, ys[1]))

\* Trader.run_bollinger_strategy; std_dev squared is k2num / k2den
run_bollinger_strategy(self, state, symbol, window, k2num, k2den) ==
    LET depth == state.order_depths[symbol]
        prices == LastN(self.price_history[symbol], window)
        position == PositionOf(state.position, symbol)
        limit == AssetLimit(symbol)
        best_ask == SetMin(DOMAIN depth.sell_orders)
        best_bid == SetMax(DOMAIN depth.buy_orders)
        v == VarianceN2(prices)
        below == MeanMinusPriceN(prices, best_ask)      \* n * 2 * (mean - best_ask)
        above == -MeanMinusPriceN(prices, best_bid)     \* n * 2 * (best_bid - mean)
        \* best_ask < mean - std_dev * std
        buys == /\ HasAsks(depth) /\ best_ask # 0
                /\ below > 0 /\ k2num * v < k2den * below * below
                /\ position < limit
        \* best_bid > mean + std_dev * std
        sells == /\ HasBids(depth) /\ best_bid # 0
                 /\ above > 0 /\ k2num * v < k2den * above * above
                 /\ position > -limit
        buy_qty == Min2(Abs(depth.sell_orders[best_ask]), limit - position)
        sell_qty == Min2(Abs(depth.buy_orders[best_bid]), position + limit)
        entry1 == IF buys THEN (symbol :> best_ask) @@ self.entry_price_map
                  ELSE self.entry_price_map
        entry2 == IF sells THEN (symbol :> best_bid) @@ entry1 ELSE entry1
    IN  IF Len(self.price_history[symbol]) < window THEN Returned(self, <<>>)
        ELSE Returned([self EXCEPT !.entry_price_map = entry2],
                 (IF buys THEN <<Order(symbol, best_ask, buy_qty)>> ELSE <<>>)
                 \o (IF sells THEN <<Order(symbol, best_bid, -sell_qty)>> ELSE <<>>))

\* Trader.run_option_strategy
run_option_strategy(self, state, symbol) ==
    LET rock == self.price_history["VOLCANIC_ROCK"]
        rock_price2 == IF rock # <<>> THEN rock[Len(rock)] ELSE 0
        intrinsic2 == Max2(rock_price2 - 2 * Strike(symbol), 0)
        depth == state.order_depths[symbol]
        best_bid == SetMax(DOMAIN depth.buy_orders)
        best_ask == SetMin(DOMAIN depth.sell_orders)
        position == PositionOf(state.position, symbol)
        limit == AssetLimit(symbol)
    IN  IF HasAsks(depth) /\ best_ask # 0 /\ intrinsic2 >= 2 * best_ask /\ position < limit
        THEN Returned(self, <<Order(symbol, best_ask,
                 Min2(Abs(depth.sell_orders[best_ask]), limit - position))>>)
        ELSE IF HasBids(depth) /\ best_bid # 0 /\ intrinsic2 <= 2 * best_bid
                /\ position > -limit
        THEN Returned(self, <<Order(symbol, best_bid,
                 -Min2(Abs(depth.buy_orders[best_bid]), position + limit))>>)
        ELSE Returned(self, <<>>)

ExtremeWindow == 50

\* Trader.run_extreme_strategy
run_extreme_strategy(self, state, symbol) ==
    LET recent_prices == LastN(self.price_history[symbol], ExtremeWindow)
        n == Len(recent_prices)
        v == VarianceN2(recent_prices)
        \* n * 2 * (current - mean)
        deviation == n * (recent_prices[n] - recent_prices[1])
                     - SumSeq(Shifted(recent_prices, recent_prices[1]))
        depth == state.order_depths[symbol]
        position == PositionOf(state.position, symbol)
        limit == AssetLimit(symbol)
        best_bid == SetMax(DOMAIN depth.buy_orders)
        best_ask == SetMin(DOMAIN depth.sell_orders)
    IN  IF Len(self.price_history[symbol]) < ExtremeWindow THEN Returned(self, <<>>)
        \* deviation > 2 * std
        ELSE IF deviation > 0 /\ deviation * deviation > 4 * v /\ position > -limit
        THEN IF ~HasBids(depth) THEN Raised(self)       \* max() of an empty dict
             ELSE Returned(self, <<Order(symbol, best_bid,
                      -Min2(Abs(depth.buy_orders[best_bid]), position + limit))>>)
        \* deviation < -2 * std
        ELSE IF deviation < 0 /\ deviation * deviation > 4 * v /\ position < limit
        THEN IF ~HasAsks(depth) THEN Raised(self)       \* min() of an empty dict
             ELSE Returned(self, <<Order(symbol, best_ask,
                      Min2(Abs(depth.sell_orders[best_ask]), limit - position))>>)
        ELSE Returned(self, <<>>)

\* Trader.run_resin_market_maker
run_resin_market_maker(self, state, symbol) ==
    LET fair == 10000
        spread == 2
        position == PositionOf(state.position, symbol)
    IN  Returned(self,
            (IF position < 50 THEN <<Order(symbol, fair - spread, 10)>> ELSE <<>>)
            \o (IF position > -50 THEN <<Order(symbol, fair + spread, -10)>> ELSE <<>>))

PicnicSymbols == {"CROISSANTS", "JAMS", "DJEMBES", "PICNIC_BASKET1", "PICNIC_BASKET2"}

\* get_mid of run_picnic_arbitrage, doubled
Mid2(depth) == SetMax(DOMAIN depth.buy_orders) + SetMin(DOMAIN depth.sell_orders)

\* Trader.run_picnic_arbitrage: the orders per basket (a key only for a
\* basket with an order, as in the defaultdict returned)
run_picnic_arbitrage(self, state) ==
    LET od == state.order_depths
        mid2(sym) == Mid2(od[sym])
        pb1_fair2 == 6 * mid2("CROISSANTS") + 3 * mid2("JAMS") + mid2("DJEMBES")
        pb2_fair2 == 4 * mid2("CROISSANTS") + 2 * mid2("JAMS")
        diff1 == mid2("PICNIC_BASKET1") - pb1_fair2
        diff2 == mid2("PICNIC_BASKET2") - pb2_fair2
        threshold2 == 2 * 30
        leg(sym, diff) ==
            IF diff > threshold2
            THEN sym :> <<Order(sym, SetMax(DOMAIN od[sym].buy_orders), -2)>>
            ELSE IF diff < -threshold2
            THEN sym :> <<Order(sym, SetMin(DOMAIN od[sym].sell_orders), 2)>>
            ELSE EmptyDict
    IN  \* a missing symbol is a KeyError, a one-sided book a None mid that
        \* the arithmetic on the mids rejects with a TypeError
        IF \E sym \in PicnicSymbols :
              sym \notin DOMAIN od \/ ~HasBids(od[sym]) \/ ~HasAsks(od[sym])
        THEN Raised(self)
        ELSE Returned(self, leg("PICNIC_BASKET1", diff1) @@ leg("PICNIC_BASKET2", diff2))

MeanReversionWindow == 15

\* round(mean -/+ 0.8 * std) of run_mean_reversion for the doubled prices ys;
\* sign is -1 for the bid and +1 for the ask.  With n = Len(ys),
\* a = sum(ys) and v = n^2 * variance(ys), the value rounded is
\* x = (a + sign * 0.8 * sqrt(v)) / (2n); round() takes a tie to the even
\* integer.
RoundedBand(ys, sign) ==
    LET n == Len(ys)
        a == n * ys[1] + SumSeq(Shifted(ys, ys[1]))
        v == VarianceN2(ys)
        lo == SetMin({ys[i] : i \in 1..n})
        hi == SetMax({ys[i] : i \in 1..n})
        \* the sign of (sign * 4 * sqrt(v)) - l, as -1, 0 or 1
        cmp(l) == IF sign > 0
                  THEN IF l < 0 \/ 16 * v > l * l THEN 1
                       ELSE IF 16 * v = l * l THEN 0 ELSE -1
                  ELSE IF l > 0 \/ 16 * v > l * l THEN -1
                       ELSE IF 16 * v = l * l THEN 0 ELSE 1
        \* the sign of x - (r -/+ 1/2)
        overLow(r) == cmp(5 * (2 * n * r - n - a))
        overHigh(r) == cmp(5 * (2 * n * r + n - a))
        Even(r) == r % 2 = 0
    IN  CHOOSE r \in (lo \div 2 - (hi - lo) - 1)..(hi \div 2 + (hi - lo) + 1) :
            \/ overLow(r) > 0 /\ overHigh(r) < 0
            \/ overLow(r) = 0 /\ Even(r)
            \/ overHigh(r) = 0 /\ Even(r)

\* Trader.run_mean_reversion
run_mean_reversion(self, state, symbol) ==
    LET prices == LastN(self.price_history[symbol], MeanReversionWindow)
        bid == RoundedBand(prices, -1)
        ask == RoundedBand(prices, 1)
    IN  IF Len(self.price_history[symbol]) < MeanReversionWindow
        THEN Returned(self, <<>>)
        ELSE Returned(self, <<Order(symbol, bid, 10), Order(symbol, ask, -10)>>)

RECURSIVE OliviaOrders(_, _, _, _, _, _)
OliviaOrders(trades, symbol, position, limit, best_bid, best_ask) ==
    IF trades = <<>> THEN <<>>
    ELSE LET t == Head(trades)
             rest == OliviaOrders(Tail(trades), symbol, position, limit, best_bid, best_ask)
         IN  IF t.buyer = "Olivia" /\ position < limit
             THEN <<Order(symbol, best_ask, 10)>> \o rest
             ELSE IF t.seller = "Olivia" /\ position > -limit
             THEN <<Order(symbol, best_bid, -10)>> \o rest
             ELSE rest

\* Trader.run_olivia_tracking
run_olivia_tracking(self, state, symbol) ==
    LET depth == state.order_depths[symbol]
        position == PositionOf(state.position, symbol)
        limit == AssetLimit(symbol)
    IN  IF symbol \notin DOMAIN state.market_trades THEN Returned(self, <<>>)
        ELSE IF ~HasBids(depth) \/ ~HasAsks(depth) THEN Raised(self)
        ELSE Returned(self,
                 OliviaOrders(state.market_trades[symbol], symbol, position, limit,
                     SetMax(DOMAIN depth.buy_orders), SetMin(DOMAIN depth.sell_orders)))

SunlightWindow == 10

\* Trader.run_sunlight_strategy.  The sunlight index is kept in tenths.
\* np.convolve(..., mode='valid') of h has len(h) - 9 entries and np.gradient
\* needs two: with exactly 10 samples it raises; with more, its last entry
\* is smooth[-1] - smooth[-2] = (h[-1] - h[-11]) / 10.
run_sunlight_strategy(self, state, symbol) ==
    LET h == Append(self.sunlight_index_history, state.observations[symbol])
        self1 == [self EXCEPT !.sunlight_index_history = h]
        \* 100 * gradient and 100 * threshold
        gradient100 == h[Len(h)] - h[Len(h) - SunlightWindow]
        threshold100 == 1
        depth == state.order_depths[symbol]
        position == PositionOf(state.position, symbol)
        limit == AssetLimit(symbol)
    IN  IF symbol \notin DOMAIN state.observations THEN Raised(self)
        ELSE IF Len(h) < SunlightWindow THEN Returned(self1, <<>>)
        ELSE IF Len(h) = SunlightWindow THEN Raised(self1)
        ELSE IF gradient100 > threshold100 /\ position < limit
        THEN IF ~HasAsks(depth) THEN Raised(self1)
             ELSE Returned(self1, <<Order(symbol, SetMin(DOMAIN depth.sell_orders), 10)>>)
        ELSE IF gradient100 < -threshold100 /\ position > -limit
        THEN IF ~HasBids(depth) THEN Raised(self1)
             ELSE Returned(self1, <<Order(symbol, SetMax(DOMAIN depth.buy_orders), -10)>>)
        ELSE Returned(self1, <<>>)

-----------------------------------------------------------------------------
(* improved_trading_bot.py: Trader.run *)

\* Trader.__init__: the fields the policies and the persistence use.
\* price_history is a defaultdict(list): a symbol without samples reads <<>>.
NewTrader ==
    [price_history |-> [sym \in BotSymbols |-> <<>>],
     entry_price_map |-> EmptyDict,
     position_side_map |-> EmptyDict,
     sunlight_index_history |-> <<>>,
     tick_counter |-> 0]

\* state_vars_to_persist without the sunlight history
StateVarsWithoutSunlight ==
    {"price_history", "entry_price_map", "position_side_map"}

\* Trader.state_vars_to_persist
StateVarsToPersist ==
    {"price_history", "entry_price_map", "position_side_map", "sunlight_index_history"}

\* jsonpickle's flattening of one persisted field: the defaultdict becomes a
\* tagged object holding its items, dicts and lists of numbers and strings
\* stay as they are
Flatten(k, value) ==
    IF k = "price_history"
    THEN [py_object |-> "collections.defaultdict", default_factory |-> "builtins.list",
          items |-> value]
    ELSE value

\* jsonpickle's restoring of one decoded field: an object tagged as a
\* defaultdict becomes one, anything else stays what the JSON text says
Restore(k, flat) ==
    IF k = "price_history" /\ "py_object" \in DOMAIN flat THEN flat.items ELSE flat

\* traderData is a string: <<>> models the empty string, <<document>> the
\* JSON text of document
NoTraderData == <<>>

\* Trader.save_state
SaveState(self) == << [k \in StateVarsToPersist |-> Flatten(k, self[k])] >>

\* a text that is no JSON is modelled by the document with the one key
\* JSONDecodeError: jsonpickle.decode raises on it
Decodes(data) == "JSONDecodeError" \notin DOMAIN data[1]

\* Trader.load_state: the exception of decode is caught and nothing is set
LoadState(self, data) ==
    IF data = NoTraderData \/ ~Decodes(data) THEN self
    ELSE LET document == data[1]
         IN  [k \in DOMAIN self |->
                 IF k \in StateVarsToPersist /\ k \in DOMAIN document
                 THEN Restore(k, document[k])
                 ELSE self[k]]

\* update_price_history keeping the oldest samples instead of the newest
AppendMidKeepOldest(history, depth) ==
    LET appended == Append(history, Mid2(depth))
    IN  SubSeq(appended, 1, Min2(Len(appended), PriceHistoryCap))

\* Trader.update_price_history: line 263-264 for one symbol
AppendMid(history, depth) ==
    LastN(Append(history, Mid2(depth)), PriceHistoryCap)

\* Trader.update_price_history
UpdatePriceHistory(history, order_depths) ==
    [sym \in DOMAIN history |->
        IF sym \in DOMAIN order_depths
           /\ HasBids(order_depths[sym]) /\ HasAsks(order_depths[sym])
        THEN AppendMid(history[sym], order_depths[sym])
        ELSE history[sym]]

\* line 263 raises KeyError: price_history is a plain dict without the key
\* of a symbol whose book has both sides
UpdateRaises(history, order_depths) ==
    \E sym \in DOMAIN order_depths :
        /\ HasBids(order_depths[sym]) /\ HasAsks(order_depths[sym])
        /\ sym \notin DOMAIN history

\* orders.setdefault(k, []).extend(v) for every basket of pb_orders
ExtendOrders(orders, pb_orders) ==
    [sym \in DOMAIN orders |->
        IF sym \in DOMAIN pb_orders THEN orders[sym] \o pb_orders[sym] ELSE orders[sym]]

\* The body of the loop of Trader.run for one symbol.  acc is the Trader and
\* the order mapping so far (a symbol without a key reads <<>>).
Dispatch(acc, state, symbol) ==
    LET self == acc.self
        r == CASE symbol = "KELP" -> run_bollinger_strategy(self, state, symbol, 20, 4, 1)
               [] symbol = "VOLCANIC_ROCK" ->
                      run_bollinger_strategy(self, state, symbol, 50, 36, 25)
               [] symbol = "VOLCANIC_ROCK_VOUCHER_10000" ->
                      run_option_strategy(self, state, symbol)
               [] symbol = "SQUID_INK" -> run_extreme_strategy(self, state, symbol)
               [] symbol = "RAINFOREST_RESIN" -> run_resin_market_maker(self, state, symbol)
               [] symbol \in {"PICNIC_BASKET1", "PICNIC_BASKET2"} ->
                      run_picnic_arbitrage(self, state)
               [] symbol = "DJEMBES" -> run_mean_reversion(self, state, symbol)
               [] symbol = "CROISSANTS" -> run_olivia_tracking(self, state, symbol)
               [] symbol = "MAGNIFICENT_MACARONS" ->
                      run_sunlight_strategy(self, state, symbol)
               [] OTHER -> Returned(self, <<>>)
    IN  IF r.raised THEN [self |-> r.self, orders |-> acc.orders, raised |-> TRUE]
        ELSE IF symbol \in {"PICNIC_BASKET1", "PICNIC_BASKET2"}
        THEN [self |-> r.self, orders |-> ExtendOrders(acc.orders, r.orders),
              raised |-> FALSE]
        ELSE [self |-> r.self, orders |-> [acc.orders EXCEPT ![symbol] = r.orders],
              raised |-> FALSE]

RECURSIVE RunSymbols(_, _, _)
RunSymbols(acc, state, i) ==
    IF i > Len(BotSymbolOrder) \/ acc.raised THEN acc
    ELSE IF BotSymbolOrder[i] \notin DOMAIN state.order_depths
    THEN RunSymbols(acc, state, i + 1)
    ELSE RunSymbols(Dispatch(acc, state, BotSymbolOrder[i]), state, i + 1)

NoOrders == [sym \in BotSymbols |-> <<>>]

\* Trader.run: the Trader after the call, whether it raised, and when it
\* returned its order mapping and traderData.  The symbols of
\* state.order_depths are walked in the order of BotSymbolOrder.
TraderRunBot(self, state) ==
    LET loaded == LoadState(self, state.traderData)
        counted == [loaded EXCEPT !.tick_counter = @ + 1]
        updated == [counted EXCEPT
                       !.price_history = UpdatePriceHistory(@, state.order_depths)]
        done == IF UpdateRaises(counted.price_history, state.order_depths)
                THEN [self |-> counted, orders |-> NoOrders, raised |-> TRUE]
                ELSE RunSymbols([self |-> updated, orders |-> NoOrders,
                                 raised |-> FALSE], state, 1)
    IN  [self |-> done.self, raised |-> done.raised,
         orders |-> IF done.raised THEN NoOrders ELSE done.orders,
         trader_data |-> IF done.raised THEN NoTraderData ELSE SaveState(done.self)]

-----------------------------------------------------------------------------
(* improved_trading_bot.py: the ticks Trader.run is called with *)

Book(bid, bid_volume, ask, ask_volume) ==
    OrderDepth(bid :> bid_volume, ask :> -ask_volume)

\* The base tick: a two-sided book for every symbol, the baskets at their
\* synthetic value
BaseDepths ==
    [sym \in BotSymbols |->
        CASE sym = "KELP" -> Book(2000, 5, 2004, 5)
          [] sym = "VOLCANIC_ROCK" -> Book(10000, 9, 10002, 9)
          [] sym = "VOLCANIC_ROCK_VOUCHER_10000" -> Book(5, 4, 7, 4)
          [] sym = "SQUID_INK" -> Book(1900, 6, 1904, 6)
          [] sym = "RAINFOREST_RESIN" -> Book(9998, 4, 10002, 4)
          [] sym = "CROISSANTS" -> Book(4299, 20, 4301, 20)
          [] sym = "JAMS" -> Book(6599, 20, 6601, 20)
          [] sym = "DJEMBES" -> Book(13399, 8, 13401, 8)
          [] sym = "PICNIC_BASKET1" -> Book(58995, 3, 59005, 3)
          [] sym = "PICNIC_BASKET2" -> Book(30395, 3, 30405, 3)
          [] sym = "MAGNIFICENT_MACARONS" -> Book(640, 7, 650, 7)]

BaseSunlight == 500

BaseTick ==
    [order_depths |-> BaseDepths,
     position |-> [sym \in BotSymbols |-> 0],
     market_trades |-> EmptyDict,
     observations |-> "MAGNIFICENT_MACARONS" :> BaseSunlight]

\* The other ticks: the base tick with one thing changed
OddTicks == <<
    \* KELP falls
    [BaseTick EXCEPT !.order_depths["KELP"] = Book(1986, 5, 1990, 5)],
    \* positions five short of the long limit
    [BaseTick EXCEPT !.position = [sym \in BotSymbols |-> AssetLimit(sym) - 5]],
    \* PICNIC_BASKET1 above its synthetic value
    [BaseTick EXCEPT !.order_depths["PICNIC_BASKET1"] = Book(59040, 3, 59050, 3)],
    \* a trade in CROISSANTS while its book has no asks
    [BaseTick EXCEPT !.order_depths["CROISSANTS"] = OrderDepth(4299 :> 20, EmptyDict),
                     !.market_trades = "CROISSANTS" :> <<>>],
    \* the sunlight index rises
    [BaseTick EXCEPT !.observations = "MAGNIFICENT_MACARONS" :> (BaseSunlight + 20)] >>

\* The n-th tick of a rising JAMS market, JAMS being the only symbol
FeedTick(n) ==
    [BaseTick EXCEPT !.order_depths = "JAMS" :> Book(6599 + n, 20, 6601 + n, 20)]

WithTraderData(t, data) ==
    [order_depths |-> t.order_depths, position |-> t.position,
     market_trades |-> t.market_trades, observations |-> t.observations,
     traderData |-> data]

TraderSelf ==
    [price_history |-> price_history,
     entry_price_map |-> entry_price_map,
     position_side_map |-> position_side_map,
     sunlight_index_history |-> sunlight_index_history,
     tick_counter |-> tick_counter]

BotInit ==
    /\ price_history = NewTrader.price_history
    /\ entry_price_map = NewTrader.entry_price_map
    /\ position_side_map = NewTrader.position_side_map
    /\ sunlight_index_history = NewTrader.sunlight_index_history
    /\ tick_counter = NewTrader.tick_counter
    /\ trader_data = NoTraderData
    /\ bot_orders = NoOrders
    /\ bot_raised = FALSE
    /\ bot_position = BaseTick.position
    /\ bot_depths = EmptyDict
    /\ bot_resumed = FALSE
    /\ fresh_orders = NoOrders
    /\ fresh_raised = FALSE
    /\ jams_fed = <<>>
    /\ bot_odd = 0
    /\ bot_foreign = 0

\* One call of Trader.run with tick t and traderData data, and the call of a
\* newly constructed Trader with the same arguments
CallRun(t, data) ==
    \E runs \in {[new \in BOOLEAN |->
                     TraderRunBot(IF new THEN NewTrader ELSE TraderSelf,
                                  WithTraderData(t, data))]} :
    LET r == runs[FALSE]
        fresh == runs[TRUE]
        jams == "JAMS" \in DOMAIN t.order_depths
                /\ HasBids(t.order_depths["JAMS"]) /\ HasAsks(t.order_depths["JAMS"])
    IN  /\ price_history' = r.self.price_history
        /\ entry_price_map' = r.self.entry_price_map
        /\ position_side_map' = r.self.position_side_map
        /\ sunlight_index_history' = r.self.sunlight_index_history
        /\ tick_counter' = r.self.tick_counter
        /\ trader_data' = IF r.raised THEN trader_data ELSE r.trader_data
        /\ bot_orders' = r.orders
        /\ bot_raised' = r.raised
        /\ bot_position' = t.position
        /\ bot_depths' = t.order_depths
        /\ bot_resumed' = (data # NoTraderData /\ data = trader_data /\ ~bot_raised)
        /\ fresh_orders' = fresh.orders
        /\ fresh_raised' = fresh.raised
        /\ jams_fed' = IF jams /\ "JAMS" \in DOMAIN r.self.price_history THEN Append(jams_fed, Mid2(t.order_depths["JAMS"]))
                       ELSE jams_fed

\* Trader.run on the base tick or an odd one, given the traderData last
\* returned; after a run that raised and so returned none, given that or none
BotRun ==
    /\ tick_counter < MaxBotTicks
    /\ \E i \in 0..Len(OddTicks),
          data \in IF bot_raised THEN {trader_data, NoTraderData} ELSE {trader_data} :
        /\ i # 0 => bot_odd < MaxOddTicks
        /\ CallRun(IF i = 0 THEN BaseTick ELSE OddTicks[i], data)
        /\ bot_odd' = IF i = 0 THEN bot_odd ELSE bot_odd + 1
    /\ bot_foreign' = 0
    /\ UNCHANGED BotOthers

\* Trader.run on the next tick of the rising JAMS market, given the
\* traderData last returned
BotFeed ==
    /\ tick_counter < PriceHistoryCap + MaxOverflow
    /\ CallRun(FeedTick(tick_counter), trader_data)
    /\ bot_foreign' = 0
    /\ UNCHANGED bot_odd
    /\ UNCHANGED BotOthers

\* traderData this Trader did not write: a text that is no JSON, a document
\* without three of the persisted fields, a document whose price_history is
\* the plain object {}
ForeignData == <<
    << [JSONDecodeError |-> TRUE] >>,
    << [entry_price_map |-> EmptyDict] >>,
    << [k \in StateVarsToPersist |->
           IF k = "sunlight_index_history" THEN <<>> ELSE EmptyDict] >> >>

\* Trader.run on one of the first ticks of the rising JAMS market, given a
\* traderData it did not write
BotForeign ==
    /\ tick_counter < MaxForeignTicks
    /\ \E i \in 1..Len(ForeignData) :
        /\ CallRun(FeedTick(tick_counter), ForeignData[i])
        /\ bot_foreign' = i
    /\ UNCHANGED bot_odd
    /\ UNCHANGED BotOthers

-----------------------------------------------------------------------------
(* round_2/round2_v_1.py: trade_picnic_baskets *)

SpreadWindow == 20
ZscoreThreshold == 2
MaxOrderSize == 5

R2Baskets == <<"PICNIC_BASKET1", "PICNIC_BASKET2">>

\* StrategyParams.PICNIC["basket1_components"], ["basket2_components"], in
\* the order of the dict
R2Components(basket) ==
    IF basket = "PICNIC_BASKET1"
    THEN << [product |-> "CROISSANT", quantity |-> 6],
            [product |-> "JAM", quantity |-> 3],
            [product |-> "DJEMBE", quantity |-> 1] >>
    ELSE << [product |-> "CROISSANT", quantity |-> 4],
            [product |-> "JAM", quantity |-> 2] >>

R2Products == {"PICNIC_BASKET1", "PICNIC_BASKET2", "CROISSANT", "JAM", "DJEMBE"}

\* Trader.position_limits
R2PositionLimit(product) ==
    CASE product = "PICNIC_BASKET1" -> 60
      [] product = "PICNIC_BASKET2" -> 100
      [] product = "CROISSANT" -> 250
      [] product = "JAM" -> 350
      [] product = "DJEMBE" -> 60

\* Trader.calculate_synthetic_price, doubled; none when a component has no
\* book or a one-sided one
RECURSIVE SyntheticPrice2(_, _, _)
SyntheticPrice2(order_depths, components, i) ==
    IF i > Len(components) THEN [none |-> FALSE, value |-> 0]
    ELSE LET product == components[i].product
         IN  IF product \notin DOMAIN order_depths
                \/ ~HasBids(order_depths[product]) \/ ~HasAsks(order_depths[product])
             THEN [none |-> TRUE, value |-> 0]
             ELSE LET rest == SyntheticPrice2(order_depths, components, i + 1)
                  IN  [none |-> rest.none,
                       value |-> Mid2(order_depths[product]) * components[i].quantity
                                 + rest.value]

\* (spread - np.mean(h)) / np.std(h) for the doubled spreads ys, the spread
\* being the last of them: numpy's float division gives nan for 0/0 and an
\* infinity for x/0, with a warning and no exception.  beyond is
\* abs(zscore) > 2, which is False of nan.
ZScore(ys) ==
    LET n == Len(ys)
        numerator == n * ys[n] - SumSeq(ys)
        variance == n * SumSquares(ys) - SumSeq(ys) * SumSeq(ys)
        sign == IF numerator > 0 THEN 1 ELSE IF numerator < 0 THEN -1 ELSE 0
    IN  IF variance = 0 /\ numerator = 0
        THEN [computed |-> TRUE, nan |-> TRUE, sign |-> 0, beyond |-> FALSE]
        ELSE [computed |-> TRUE, nan |-> FALSE, sign |-> sign,
              beyond |-> numerator * numerator
                             > ZscoreThreshold * ZscoreThreshold * variance]

NoZScore == [computed |-> FALSE, nan |-> FALSE, sign |-> 0, beyond |-> FALSE]

\* the component orders of generate_arb_orders: side is 1 to buy them at the
\* best ask, -1 to sell them at the best bid
RECURSIVE ComponentOrders(_, _, _, _, _)
ComponentOrders(state, components, qty, side, i) ==
    IF i > Len(components) THEN [p \in R2Products |-> <<>>]
    ELSE LET product == components[i].product
             depth == state.order_depths[product]
             pos == PositionOf(state.position, product)
             comp_qty == Min2(components[i].quantity * qty,
                              IF side = 1 THEN R2PositionLimit(product) - pos
                              ELSE R2PositionLimit(product) + pos)
             price == IF side = 1 THEN SetMin(DOMAIN depth.sell_orders)
                      ELSE SetMax(DOMAIN depth.buy_orders)
             rest == ComponentOrders(state, components, qty, side, i + 1)
         IN  IF comp_qty > 0
             THEN [rest EXCEPT ![product] =
                      <<Order(product, price, side * comp_qty)>> \o @]
             ELSE rest

\* generate_arb_orders trading the components on the basket's side
generate_arb_orders_same_side(state, basket, components, position, zscore) ==
    LET depth == state.order_depths[basket]
        sell_qty == Min2(MaxOrderSize, R2PositionLimit(basket) + position)
        buy_qty == Min2(MaxOrderSize, R2PositionLimit(basket) - position)
    IN  IF zscore.sign > 0
        THEN [basket_orders |->
                  <<Order(basket, SetMax(DOMAIN depth.buy_orders), -sell_qty)>>,
              component_orders |-> ComponentOrders(state, components, sell_qty, -1, 1)]
        ELSE [basket_orders |->
                  <<Order(basket, SetMin(DOMAIN depth.sell_orders), buy_qty)>>,
              component_orders |-> ComponentOrders(state, components, buy_qty, 1, 1)]

\* Trader.generate_arb_orders, called with abs(zscore) > 2
generate_arb_orders(state, basket, components, position, zscore) ==
    LET depth == state.order_depths[basket]
        sell_qty == Min2(MaxOrderSize, R2PositionLimit(basket) + position)
        buy_qty == Min2(MaxOrderSize, R2PositionLimit(basket) - position)
    IN  IF zscore.sign > 0
        THEN [basket_orders |->
                  <<Order(basket, SetMax(DOMAIN depth.buy_orders), -sell_qty)>>,
              component_orders |-> ComponentOrders(state, components, sell_qty, 1, 1)]
        ELSE [basket_orders |->
                  <<Order(basket, SetMin(DOMAIN depth.sell_orders), buy_qty)>>,
              component_orders |-> ComponentOrders(state, components, buy_qty, -1, 1)]

\* generate_arb_orders was not called
NoArb == [called |-> FALSE, basket_orders |-> <<>>,
          component_orders |-> [p \in R2Products |-> <<>>]]

\* The body of the loop of trade_picnic_baskets for one basket.  acc is the
\* spread histories, the z-scores and the order mapping so far (a product
\* without a key reads <<>>).
PicnicBasket(acc, state, basket) ==
    LET components == R2Components(basket)
        synthetic == SyntheticPrice2(state.order_depths, components, 1)
        depth == state.order_depths[basket]
        spread2 == Mid2(depth) - synthetic.value
        appended == Append(acc.spread_history[basket], spread2)
        history == IF Len(appended) > SpreadWindow THEN Tail(appended) ELSE appended
        zscore == IF Len(history) >= SpreadWindow THEN ZScore(history) ELSE NoZScore
        arb == generate_arb_orders(state, basket, components,
                                   PositionOf(state.position, basket), zscore)
    IN  IF basket \notin DOMAIN state.order_depths THEN acc
        ELSE IF synthetic.none \/ ~HasBids(depth) \/ ~HasAsks(depth) THEN acc
        ELSE [spread_history |-> [acc.spread_history EXCEPT ![basket] = history],
              zscore |-> [acc.zscore EXCEPT ![basket] = zscore],
              arb |-> [acc.arb EXCEPT ![basket] =
                          IF ~zscore.beyond THEN NoArb
                          ELSE [called |-> TRUE,
                                basket_orders |-> arb.basket_orders,
                                component_orders |-> arb.component_orders]],
              orders |->
                  IF ~zscore.beyond THEN acc.orders
                  ELSE [p \in R2Products |->
                           IF p = basket THEN arb.basket_orders
                           ELSE acc.orders[p] \o arb.component_orders[p]]]

\* Trader.trade_picnic_baskets
trade_picnic_baskets(spread_history, state) ==
    LET start == [spread_history |-> spread_history,
                  zscore |-> [b \in {"PICNIC_BASKET1", "PICNIC_BASKET2"} |-> NoZScore],
                  arb |-> [b \in {"PICNIC_BASKET1", "PICNIC_BASKET2"} |-> NoArb],
                  orders |-> [p \in R2Products |-> <<>>]]
    IN  PicnicBasket(PicnicBasket(start, state, R2Baskets[1]), state, R2Baskets[2])

\* The base tick: both baskets at their synthetic value
R2BaseDepths ==
    [p \in R2Products |->
        CASE p = "CROISSANT" -> Book(4299, 20, 4301, 20)
          [] p = "JAM" -> Book(6599, 20, 6601, 20)
          [] p = "DJEMBE" -> Book(13399, 8, 13401, 8)
          [] p = "PICNIC_BASKET1" -> Book(58995, 3, 59005, 3)
          [] p = "PICNIC_BASKET2" -> Book(30395, 3, 30405, 3)]

R2BaseTick == [order_depths |-> R2BaseDepths, position |-> EmptyDict]

\* The other ticks
R2OddTicks == <<
    \* PICNIC_BASKET1 above its synthetic value
    [R2BaseTick EXCEPT !.order_depths["PICNIC_BASKET1"] = Book(59040, 3, 59050, 3)],
    \* PICNIC_BASKET2 below its synthetic value, held at its long limit
    [R2BaseTick EXCEPT !.order_depths["PICNIC_BASKET2"] = Book(30355, 3, 30365, 3),
                       !.position = "PICNIC_BASKET2" :> 100],
    \* DJEMBE without asks
    [R2BaseTick EXCEPT !.order_depths["DJEMBE"] = OrderDepth(13399 :> 8, EmptyDict)],
    \* both baskets above their synthetic value, CROISSANT held near its
    \* long limit and JAM at it
    [R2BaseTick EXCEPT !.order_depths["PICNIC_BASKET1"] = Book(59040, 3, 59050, 3),
                       !.order_depths["PICNIC_BASKET2"] = Book(30440, 3, 30450, 3),
                       !.position = "CROISSANT" :> 240 @@ "JAM" :> 350],
    \* PICNIC_BASKET1 below its synthetic value, DJEMBE held near its short
    \* limit
    [R2BaseTick EXCEPT !.order_depths["PICNIC_BASKET1"] = Book(58955, 3, 58965, 3),
                       !.position = "DJEMBE" :> -58] >>

R2Init ==
    /\ r2_spread_history = [b \in {"PICNIC_BASKET1", "PICNIC_BASKET2"} |-> <<>>]
    /\ r2_zscore = [b \in {"PICNIC_BASKET1", "PICNIC_BASKET2"} |-> NoZScore]
    /\ r2_orders = [p \in R2Products |-> <<>>]
    /\ r2_arb = [b \in {"PICNIC_BASKET1", "PICNIC_BASKET2"} |-> NoArb]
    /\ r2_state = R2BaseTick
    /\ r2_calls = 0
    /\ r2_odd = 0

\* One call of trade_picnic_baskets from Trader.run
PicnicBasketsCall ==
    /\ r2_calls < MaxPicnicCalls
    /\ \E i \in 0..Len(R2OddTicks) :
        /\ i # 0 => r2_odd < MaxOddSpreads
        /\ \E state \in {IF i = 0 THEN R2BaseTick ELSE R2OddTicks[i]} :
           \E r \in {trade_picnic_baskets(r2_spread_history, state)} :
            /\ r2_spread_history' = r.spread_history
            /\ r2_zscore' = r.zscore
            /\ r2_orders' = r.orders
            /\ r2_arb' = r.arb
            /\ r2_state' = state
        /\ r2_odd' = IF i = 0 THEN r2_odd ELSE r2_odd + 1
    /\ r2_calls' = r2_calls + 1
    /\ UNCHANGED R2Others

-----------------------------------------------------------------------------
(* tutorial_round/trade.py: get_mid_price, update_ema_prices *)

T1Products == <<"RAINFOREST_RESIN", "KELP">>

DefaultPrice == 10000

\* Every call of update_ema_prices halves twice (the mid price, then the
\* average with the old value), so prices times 4^MaxEmaCalls stay integers.
EmaScale == 4 ^ MaxEmaCalls

\* get_mid_price with the max of the bids replaced by their min
get_mid_price_lowest_bid(default_price, order_depths, product) ==
    IF product \notin DOMAIN order_depths THEN default_price
    ELSE LET order_depth == order_depths[product]
             best_bid == IF HasBids(order_depth)
                         THEN EmaScale * SetMin(DOMAIN order_depth.buy_orders)
                         ELSE default_price
             best_ask == IF HasAsks(order_depth)
                         THEN EmaScale * SetMin(DOMAIN order_depth.sell_orders)
                         ELSE default_price
         IN  (best_bid + best_ask) \div 2

\* Trader.get_mid_price, default_price being self.ema_prices[product] and
\* the result being times EmaScale as well.  An OrderDepth object is true
\* also when both its dicts are empty.
get_mid_price(default_price, order_depths, product) ==
    IF product \notin DOMAIN order_depths THEN default_price
    ELSE LET order_depth == order_depths[product]
             best_bid == IF HasBids(order_depth)
                         THEN EmaScale * SetMax(DOMAIN order_depth.buy_orders)
                         ELSE default_price
             best_ask == IF HasAsks(order_depth)
                         THEN EmaScale * SetMin(DOMAIN order_depth.sell_orders)
                         ELSE default_price
         IN  (best_bid + best_ask) \div 2

\* line 53-54 with ema_param 0.5
EmaUpdate(ema, mid_price) == (mid_price + ema) \div 2

\* KELP books of a tick
T1KelpBooks == <<
    OrderDepth(EmptyDict, EmptyDict),
    OrderDepth(9990 :> 10, EmptyDict),
    OrderDepth(EmptyDict, 10013 :> -10),
    OrderDepth(9996 :> 10, 10001 :> -10),
    OrderDepth(9994 :> 5 @@ 9997 :> 10, 10004 :> -10 @@ 10002 :> -3) >>

\* state.order_depths of a tick: KELP absent or with one of the books,
\* RAINFOREST_RESIN absent or with its usual book
T1OrderDepths ==
    {EmptyDict, "RAINFOREST_RESIN" :> Book(9998, 4, 10002, 4)}
    \cup {"KELP" :> T1KelpBooks[i] : i \in 1..Len(T1KelpBooks)}
    \cup {"KELP" :> T1KelpBooks[i] @@ "RAINFOREST_RESIN" :> Book(9998, 4, 10002, 4) :
             i \in 1..Len(T1KelpBooks)}

T1Init ==
    /\ ema_prices = [p \in {"RAINFOREST_RESIN", "KELP"} |-> EmaScale * DefaultPrice]
    /\ t1_calls = 0
    /\ t1_state = EmptyDict
    /\ t1_default = ema_prices
    /\ t1_mid = ema_prices

\* Trader.update_ema_prices
UpdateEmaPrices ==
    /\ t1_calls < MaxEmaCalls
    /\ \E order_depths \in T1OrderDepths :
        /\ t1_state' = order_depths
        /\ t1_mid' = [p \in {"RAINFOREST_RESIN", "KELP"} |->
                         get_mid_price(ema_prices[p], order_depths, p)]
        /\ ema_prices' = [p \in {"RAINFOREST_RESIN", "KELP"} |->
                             EmaUpdate(ema_prices[p], t1_mid'[p])]
    /\ t1_default' = ema_prices
    /\ t1_calls' = t1_calls + 1
    /\ UNCHANGED T1Others

-----------------------------------------------------------------------------
(* tutorial_round/trade_v9_vwap.py: fixed_fair_value_orders on any book *)

\* Prices of the RAINFOREST_RESIN levels around the fair value
V9Bids == {9995, 9997, 9998, 9999, 10001, 10003}
V9Asks == {9996, 9998, 10000, 10002, 10003, 10005}

\* The uncrossed books of at most one level a side, 10 lots a level
V9Books ==
    {OrderDepth(EmptyDict, EmptyDict)}
    \cup {OrderDepth(b :> 10, EmptyDict) : b \in V9Bids}
    \cup {OrderDepth(EmptyDict, a :> -10) : a \in V9Asks}
    \cup {OrderDepth(x[1] :> 10, x[2] :> -10) :
            x \in {y \in V9Bids \X V9Asks : y[1] < y[2]}}

V9Positions == {-50, -45, 0, 45, 50}

V9Init ==
    /\ v9_depth = OrderDepth(EmptyDict, EmptyDict)
    /\ v9_position = 0
    /\ v9_take = <<>>
    /\ v9_post = <<>>

\* Trader.run's call of fixed_fair_value_orders for RAINFOREST_RESIN
FixedFairValueCall ==
    /\ \E order_depth \in V9Books, position \in V9Positions :
        \E parts \in {fixed_fair_value_parts("RAINFOREST_RESIN", order_depth,
                                             FairValueResin, WidthResin,
                                             position, PositionLimit)} :
            /\ v9_depth' = order_depth
            /\ v9_position' = position
            /\ v9_take' = parts.take
            /\ v9_post' = parts.post
    /\ UNCHANGED V9Others

-----------------------------------------------------------------------------
(* tutorial_round/trade_v9.py: dynamic_fair_value_orders *)

MaxSoftPosition == 40
StopThreshold == 3

\* lines 93-99: int(0.2 * current_vwap + 0.8 * kelp_ema_price), or the
\* current VWAP for the first sample
KelpEmaUpdate(ema, current_vwap) ==
    IF ema = {} THEN current_vwap
    ELSE TruncDiv(current_vwap + 4 * (CHOOSE e \in ema : TRUE), 5)

\* Trader.dynamic_fair_value_orders of trade_v9.py on a two-sided book: the
\* EMA after the call, the fair value, and the orders of its three blocks
\* in the order they are appended.  take_width is 1.2 + abs(position) /
\* position_limit, compared after multiplying by 5 * position_limit.
v9_dynamic_fair_value_orders(product, order_depth, position, position_limit, ema) ==
    LET sells == order_depth.sell_orders
        buys == order_depth.buy_orders
        best_ask == SetMin(DOMAIN sells)
        best_bid == SetMax(DOMAIN buys)
        ask_volume == -sells[best_ask]
        bid_volume == buys[best_bid]
        total_volume == ask_volume + bid_volume
        current_vwap == IF total_volume > 0
                        THEN TruncDiv(best_bid * ask_volume + best_ask * bid_volume,
                                      total_volume)
                        ELSE FloorDiv(best_ask + best_bid, 2)
        fair_value == KelpEmaUpdate(ema, current_vwap)
        take_width_scaled == 6 * position_limit + 5 * Abs(position)
        take_buy == IF 5 * position_limit * (fair_value - best_ask) >= take_width_scaled
                       /\ position < position_limit
                    THEN Min2(ask_volume, position_limit - position) ELSE 0
        buy_volume == IF take_buy > 0 THEN take_buy ELSE 0
        take_sell == IF 5 * position_limit * (best_bid - fair_value) >= take_width_scaled
                        /\ position > -position_limit
                     THEN Min2(bid_volume, position_limit + position) ELSE 0
        sell_volume == IF take_sell > 0 THEN take_sell ELSE 0
        stop_short == position < -MaxSoftPosition /\ best_bid < fair_value - StopThreshold
        stop_long == position > MaxSoftPosition /\ best_ask > fair_value + StopThreshold
        above == {p \in DOMAIN sells : p > fair_value + 1}
        below == {p \in DOMAIN buys : p < fair_value - 1}
        baaf == IF above = {} THEN fair_value + 2 ELSE SetMin(above)
        bbbf == IF below = {} THEN fair_value - 2 ELSE SetMax(below)
        buy_price == IF Abs(position) < 10 THEN best_bid + 1 ELSE bbbf + 1
        sell_price == IF Abs(position) < 10 THEN best_ask - 1 ELSE baaf - 1
        buy_qty == position_limit - (position + buy_volume)
        sell_qty == position_limit + (position - sell_volume)
    IN  [kelp_ema_price |-> {fair_value},
         fair_value |-> fair_value,
         take |-> (IF take_buy > 0 THEN <<Order(product, best_ask, take_buy)>> ELSE <<>>)
                  \o (IF take_sell > 0 THEN <<Order(product, best_bid, -take_sell)>> ELSE <<>>),
         stop |-> (IF stop_short
                   THEN <<Order(product, best_bid, -Min2(bid_volume, Abs(position)))>>
                   ELSE <<>>)
                  \o (IF stop_long
                      THEN <<Order(product, best_ask, -Min2(ask_volume, Abs(position)))>>
                      ELSE <<>>),
         post |-> (IF buy_qty > 0 THEN <<Order(product, buy_price, buy_qty)>> ELSE <<>>)
                  \o (IF sell_qty > 0 THEN <<Order(product, sell_price, -sell_qty)>> ELSE <<>>)]

\* KELP books the Trader is called with: a quiet market, a fall and a rise
U9KelpBooks == <<
    Book(2000, 20, 2004, 20),
    Book(1990, 30, 1994, 10),
    Book(2010, 10, 2014, 30),
    Book(2001, 5, 2003, 60) >>

\* state.position of KELP the Trader is called with
U9Positions == {-50, -45, -41, -40, -5, 0, 5, 40, 41, 45, 50}

U9Init ==
    /\ kelp_ema_price = {}
    /\ u9_calls = 0
    /\ u9_depth = OrderDepth(EmptyDict, EmptyDict)
    /\ u9_position = 0
    /\ u9_fair_value = 0
    /\ u9_orders = <<>>
    /\ u9_stop = <<>>

\* Trader.run's call of dynamic_fair_value_orders for KELP
DynamicFairValueCall ==
    /\ u9_calls < MaxUnwindCalls
    /\ \E b \in 1..Len(U9KelpBooks), position \in U9Positions :
        \E r \in {v9_dynamic_fair_value_orders("KELP", U9KelpBooks[b], position,
                                                PositionLimit, kelp_ema_price)} :
            /\ kelp_ema_price' = r.kelp_ema_price
            /\ u9_depth' = U9KelpBooks[b]
            /\ u9_position' = position
            /\ u9_fair_value' = r.fair_value
            /\ u9_orders' = r.take \o r.stop \o r.post
            /\ u9_stop' = r.stop
    /\ u9_calls' = u9_calls + 1
    /\ UNCHANGED U9Others

-----------------------------------------------------------------------------
(* round_2/round2_v_3.py: Trader.run *)

R3Window == 50
R3SmoothWindow == 5
R3BandWindow == 20

R3Components == <<"CROISSANTS", "JAMS", "DJEMBES">>
R3Baskets == <<"PICNIC_BASKET1", "PICNIC_BASKET2">>

\* Trader.POSITION_LIMITS, whose keys are the products of price_history too
R3PositionLimit(product) ==
    CASE product = "CROISSANTS" -> 250
      [] product = "JAMS" -> 350
      [] product = "DJEMBES" -> 60
      [] product = "PICNIC_BASKET1" -> 60
      [] product = "PICNIC_BASKET2" -> 100

R3Products == {"CROISSANTS", "JAMS", "DJEMBES", "PICNIC_BASKET1", "PICNIC_BASKET2"}

\* basket_params of trade_baskets: components zipped with weights
R3BasketLegs(basket) ==
    IF basket = "PICNIC_BASKET1"
    THEN << [product |-> "CROISSANTS", weight |-> 6],
            [product |-> "JAMS", weight |-> 3],
            [product |-> "DJEMBES", weight |-> 1] >>
    ELSE << [product |-> "CROISSANTS", weight |-> 4],
            [product |-> "JAMS", weight |-> 2] >>

\* Trader.get_mid_price, doubled: 0 for an empty book, the one best price
\* for a one-sided book
R3MidPrice2(order_depth) ==
    IF ~HasAsks(order_depth) /\ ~HasBids(order_depth) THEN 0
    ELSE IF ~HasAsks(order_depth) THEN 2 * SetMax(DOMAIN order_depth.buy_orders)
    ELSE IF ~HasBids(order_depth) THEN 2 * SetMin(DOMAIN order_depth.sell_orders)
    ELSE SetMax(DOMAIN order_depth.buy_orders) + SetMin(DOMAIN order_depth.sell_orders)

\* Trader.calculate_all_mids: a product without a book gets OrderDepth()
calculate_all_mids(order_depths) ==
    [product \in R3Products |->
        IF product \in DOMAIN order_depths THEN R3MidPrice2(order_depths[product])
        ELSE 0]

\* Trader.update_histories_and_calc_volatility: the products that get a
\* volatility, those with at least 10 prices.  price_history is read and
\* never written.
update_histories_and_calc_volatility(history, mids) ==
    {product \in R3Products : Len(history[product]) >= 10}

\* Trader.calculate_safe_quantity with spread_z = 0.0, as it is always
\* called: int(base_qty * 0.0) is 0
calculate_safe_quantity(limit, current_position, short) ==
    LET max_qty == IF short THEN limit + current_position ELSE limit - current_position
        base_qty == Max2(1, TruncDiv(2 * max_qty, 10))
        z_adjusted == Max2(1, 0 * base_qty)
    IN  Min2(max_qty, z_adjusted)

\* Trader.hedge_components: the mapping of component orders
RECURSIVE hedge_components(_, _, _, _, _, _)
hedge_components(legs, qty, order_depths, positions, buy_components, i) ==
    IF i > Len(legs) THEN EmptyDict
    ELSE LET product == legs[i].product
             position == PositionOf(positions, product)
             limit == R3PositionLimit(product)
             hedge_qty == legs[i].weight * qty
             max_available == IF buy_components THEN limit - position
                              ELSE limit + position
             best_order == IF buy_components THEN order_depths[product].buy_orders
                           ELSE order_depths[product].sell_orders
             price == IF buy_components THEN SetMax(DOMAIN best_order)
                      ELSE SetMin(DOMAIN best_order)
             available_qty == best_order[price]
             qty_to_order == Min2(Min2(hedge_qty, available_qty), max_available)
             rest == hedge_components(legs, qty, order_depths, positions,
                                      buy_components, i + 1)
         IN  IF DOMAIN best_order # {} /\ qty_to_order > 0
             THEN (product :> <<Order(product, price, qty_to_order)>>) @@ rest
             ELSE rest

\* spread > spread_mean + upper_threshold * spread_std for the doubled
\* spreads ys of the window, the spread being the last of them, with
\* vol_adjustment 1: with S the sum, V = n*sum(y^2) - S^2 and S5 the sum of
\* the last m = min(5, n), it is  m * (2n^2*y - 2n*S - V) > n * S5 * sqrt(V)
R3SellSignal(ys) ==
    LET n == Len(ys)
        smooth == LastN(ys, R3SmoothWindow)
        V == n * SumSquares(ys) - SumSeq(ys) * SumSeq(ys)
        L == Len(smooth) * (2 * n * n * ys[n] - 2 * n * SumSeq(ys) - V)
        R == n * SumSeq(smooth)
    IN  IF R >= 0 THEN L > 0 /\ L * L > R * R * V
        ELSE L > 0 \/ L * L < R * R * V

\* spread < spread_mean + lower_threshold * spread_std:
\* m * (2n^2*y - 2n*S + V) < n * S5 * sqrt(V)
R3BuySignal(ys) ==
    LET n == Len(ys)
        smooth == LastN(ys, R3SmoothWindow)
        V == n * SumSquares(ys) - SumSeq(ys) * SumSeq(ys)
        L == Len(smooth) * (2 * n * n * ys[n] - 2 * n * SumSeq(ys) + V)
        R == n * SumSeq(smooth)
    IN  IF R <= 0 THEN L < 0 /\ L * L > R * R * V
        ELSE L < 0 \/ L * L < R * R * V

\* trade_baskets did nothing for a basket
R3NoSignal == [side |-> 0, basket_orders |-> <<>>, hedge |-> EmptyDict]

\* d1 updated with d2, as dict.update
DictUpdate(d1, d2) == d2 @@ d1

\* The body of the loop of trade_baskets for one basket.  No product has a
\* volatility while price_history is empty, so vol_adjustment is 1.
R3Basket(acc, state, mids, basket) ==
    LET legs == R3BasketLegs(basket)
        position == PositionOf(state.position, basket)
        limit == R3PositionLimit(basket)
        synthetic2 == SumSeq([i \in 1..Len(legs) |-> legs[i].weight * mids[legs[i].product]])
        spread2 == mids[basket] - synthetic2
        appended == Append(acc.spread_history[basket], spread2)
        history == IF Len(appended) > R3Window THEN Tail(appended) ELSE appended
        sell == R3SellSignal(history)
        buy == ~sell /\ R3BuySignal(history)
        qty == calculate_safe_quantity(limit, position, sell)
        depth == state.order_depths[basket]
        hedge == hedge_components(legs, qty, state.order_depths, state.position, sell, 1)
        acted == qty > 0 /\ ((sell /\ HasBids(depth)) \/ buy)
        basket_orders ==
            IF ~acted THEN <<>>
            ELSE IF sell THEN <<Order(basket, SetMax(DOMAIN depth.buy_orders), -qty)>>
            ELSE <<Order(basket, SetMin(DOMAIN depth.sell_orders), qty)>>
        orders1 == IF acted THEN DictUpdate(acc.orders, hedge) ELSE acc.orders
    IN  IF acc.raised \/ Abs(position) >= limit THEN acc
        ELSE IF buy /\ qty > 0 /\ ~HasAsks(depth)
        THEN \* min() of no keys
             [acc EXCEPT !.raised = TRUE,
                         !.spread_history = [@ EXCEPT ![basket] = history]]
        ELSE [spread_history |-> [acc.spread_history EXCEPT ![basket] = history],
              raised |-> FALSE,
              signal |-> [acc.signal EXCEPT ![basket] =
                             IF ~acted THEN R3NoSignal
                             ELSE [side |-> IF sell THEN -1 ELSE 1,
                                   basket_orders |-> basket_orders,
                                   hedge |-> hedge]],
              orders |-> IF basket_orders # <<>>
                         THEN DictUpdate(orders1, basket :> basket_orders)
                         ELSE orders1]

\* Trader.trade_baskets
trade_baskets(spread_history, state, mids) ==
    LET start == [spread_history |-> spread_history, raised |-> FALSE,
                  signal |-> [b \in {"PICNIC_BASKET1", "PICNIC_BASKET2"} |-> R3NoSignal],
                  orders |-> EmptyDict]
    IN  R3Basket(R3Basket(start, state, mids, R3Baskets[1]), state, mids, R3Baskets[2])

\* the side of the Bollinger band of trade_components the current price is
\* beyond (1 above, -1 below, 0 neither), for the last 20 doubled prices ys
\* and the doubled price c2: n*c2 - S against 1.5 * sqrt(V)
R3Band(ys, c2) ==
    LET n == Len(ys)
        V == n * SumSquares(ys) - SumSeq(ys) * SumSeq(ys)
        D == n * c2 - SumSeq(ys)
    IN  IF D > 0 /\ 4 * D * D > 9 * V THEN 1
        ELSE IF D < 0 /\ 4 * D * D > 9 * V THEN -1
        ELSE 0

\* Trader.trade_components: the order mapping, and the components whose
\* band strategy was evaluated
RECURSIVE trade_components(_, _, _, _)
trade_components(history, state, mids, i) ==
    IF i > Len(R3Components) THEN [orders |-> EmptyDict, evaluated |-> {}]
    ELSE LET product == R3Components[i]
             rest == trade_components(history, state, mids, i + 1)
             warm == Len(history[product]) >= R3BandWindow
             band == R3Band(LastN(history[product], R3BandWindow), mids[product])
             position == PositionOf(state.position, product)
             limit == R3PositionLimit(product)
             depth == state.order_depths[product]
             qty == calculate_safe_quantity(limit, position, band = 1)
         IN  IF ~warm THEN rest
             ELSE [evaluated |-> rest.evaluated \cup {product},
                   orders |->
                       IF band = 1 /\ qty > 0
                       THEN (product :> <<Order(product, SetMax(DOMAIN depth.buy_orders), -qty)>>)
                            @@ rest.orders
                       ELSE IF band = -1 /\ qty > 0
                       THEN (product :> <<Order(product, SetMin(DOMAIN depth.sell_orders), qty)>>)
                            @@ rest.orders
                       ELSE rest.orders]

\* Trader.run on a state without RAINFOREST_RESIN
R3TraderRun(history, spread_history, state) ==
    LET mids == calculate_all_mids(state.order_depths)
        volatilities == update_histories_and_calc_volatility(history, mids)
        baskets == trade_baskets(spread_history, state, mids)
        components == trade_components(history, state, mids, 1)
    IN  [price_history |-> history,
         spread_history |-> baskets.spread_history,
         raised |-> baskets.raised,
         signal |-> baskets.signal,
         evaluated |-> IF baskets.raised THEN {} ELSE components.evaluated,
         orders |-> IF baskets.raised THEN EmptyDict
                    ELSE DictUpdate(baskets.orders, components.orders)]

\* The base tick: both baskets at their synthetic value
R3BaseDepths ==
    [p \in R3Products |->
        CASE p = "CROISSANTS" -> Book(4299, 20, 4301, 20)
          [] p = "JAMS" -> Book(6599, 20, 6601, 20)
          [] p = "DJEMBES" -> Book(13399, 8, 13401, 8)
          [] p = "PICNIC_BASKET1" -> Book(58995, 3, 59005, 3)
          [] p = "PICNIC_BASKET2" -> Book(30395, 3, 30405, 3)]

R3BaseTick == [order_depths |-> R3BaseDepths, position |-> EmptyDict]

\* The other ticks
R3OddTicks == <<
    \* PICNIC_BASKET1 above its synthetic value
    [R3BaseTick EXCEPT !.order_depths["PICNIC_BASKET1"] = Book(58996, 3, 59006, 3)],
    \* PICNIC_BASKET1 below its synthetic value
    [R3BaseTick EXCEPT !.order_depths["PICNIC_BASKET1"] = Book(58994, 3, 59004, 3)],
    \* PICNIC_BASKET2 above its synthetic value, JAMS without bids and
    \* CROISSANTS held at its long limit
    [R3BaseTick EXCEPT !.order_depths["PICNIC_BASKET2"] = Book(30396, 3, 30406, 3),
                       !.order_depths["JAMS"] = OrderDepth(EmptyDict, 6600 :> -20),
                       !.position = "CROISSANTS" :> 250] >>

R3Init ==
    /\ r3_price_history = [p \in R3Products |-> <<>>]
    /\ r3_spread_history = [b \in {"PICNIC_BASKET1", "PICNIC_BASKET2"} |-> <<>>]
    /\ r3_orders = EmptyDict
    /\ r3_raised = FALSE
    /\ r3_signal = [b \in {"PICNIC_BASKET1", "PICNIC_BASKET2"} |-> R3NoSignal]
    /\ r3_state = R3BaseTick
    /\ r3_seen = [p \in {"CROISSANTS", "JAMS", "DJEMBES"} |-> 0]
    /\ r3_calls = 0
    /\ r3_odd = 0

\* One call of Trader.run
BasketRun ==
    /\ r3_calls < MaxBasketCalls
    /\ \E i \in 0..Len(R3OddTicks) :
        /\ i # 0 => r3_odd < MaxOddBaskets
        /\ \E state \in {IF i = 0 THEN R3BaseTick ELSE R3OddTicks[i]} :
           \E r \in {R3TraderRun(r3_price_history, r3_spread_history, state)} :
            /\ r3_price_history' = r.price_history
            /\ r3_spread_history' = r.spread_history
            /\ r3_orders' = r.orders
            /\ r3_raised' = r.raised
            /\ r3_signal' = r.signal
            /\ r3_state' = state
            /\ r3_seen' = [p \in {"CROISSANTS", "JAMS", "DJEMBES"} |->
                              IF HasBids(state.order_depths[p])
                                 /\ HasAsks(state.order_depths[p])
                              THEN r3_seen[p] + 1 ELSE r3_seen[p]]
        /\ r3_odd' = IF i = 0 THEN r3_odd ELSE r3_odd + 1
    /\ r3_calls' = r3_calls + 1
    /\ UNCHANGED R3Others

-----------------------------------------------------------------------------
(* round_1/round_v_2.py: Trader.run and trade_squid *)

SquidPositionLimit == 40
SquidLossThreshold == -1500
SquidRiskWindow == 200
SquidClip == 8
\* the mid price of a book without a bid or without an ask, doubled
SquidDefaultMid2 == 3700
SquidPositionHistoryCap == 9

\* The squid_state dict as the set of its keys and the values under them (a
\* value whose key is absent is not part of the dict).  current_edge is
\* written and never read: only its key is kept.
SquidKeys == {"current_edge", "cumulative_pnl", "last_trade",
              "position_history", "price_history"}

\* {}
SquidEmptyState ==
    [keys |-> {}, cumulative_pnl |-> 0, last_trade |-> 0,
     position_history |-> <<>>, price_history |-> <<>>]

\* the default handed to setdefault by trade_squid
SquidDefaultState(timestamp) ==
    [keys |-> SquidKeys, cumulative_pnl |-> 0, last_trade |-> timestamp,
     position_history |-> <<>>, price_history |-> <<>>]

\* trader_data as run creates it: {"squid_state": {}, "kelp_data": {}}
SquidFreshData ==
    [keys |-> {"squid_state", "kelp_data"}, squid_state |-> SquidEmptyState,
     kelp_data |-> EmptyDict]

\* jsonpickle.encode of a dict of plain values: a JSON text, kept as the
\* one-element sequence of the value it spells.  The text of a dict is
\* never the empty string, which is the empty sequence.
jsonpickle_encode(value) == <<value>>
jsonpickle_decode(text) == text[1]

\* Trader.calculate_squid_pnl, doubled: the position marked at the mid
\* against get_average_cost, which is the same mid
calculate_squid_pnl(position, order_depth) ==
    LET best_bid == IF HasBids(order_depth) THEN SetMax(DOMAIN order_depth.buy_orders) ELSE 0
        best_ask == IF HasAsks(order_depth) THEN SetMin(DOMAIN order_depth.sell_orders) ELSE 0
        mid_price2 == best_bid + best_ask
        average_cost2 == best_bid + best_ask
    IN  IF position = 0 THEN 0
        ELSE IF best_bid = 0 \/ best_ask = 0 THEN 0
        ELSE position * (mid_price2 - average_cost2)

\* Trader.trade_squid, prices in tenths.  calculate_adaptive_edge returns
\* max(0.2, 0.3 * position_factor / max(volatility, 0.5)), a number between
\* 0.2 and 0.6: what it takes from the rounded bid and adds to the rounded
\* ask, in tenths, are the inputs bid_edge10 and ask_edge10 from 2..6.
\* raised: a KeyError left trade_squid.
trade_squid(state, data, bid_edge10, ask_edge10) ==
    LET position == PositionOf(state.position, "SQUID_INK")
        order_depth == state.order_depths["SQUID_INK"]
        \* setdefault: the default is stored only under an absent key
        data1 == IF "squid_state" \in data.keys THEN data
                 ELSE [data EXCEPT
                          !.keys = @ \cup {"squid_state"},
                          !.squid_state = SquidDefaultState(state.timestamp)]
        squid_state == data1.squid_state
        best_bid == IF HasBids(order_depth) THEN SetMax(DOMAIN order_depth.buy_orders) ELSE 0
        best_ask == IF HasAsks(order_depth) THEN SetMin(DOMAIN order_depth.sell_orders) ELSE 0
        mid_price2 == IF best_bid # 0 /\ best_ask # 0 THEN best_bid + best_ask
                      ELSE SquidDefaultMid2
        seen == [squid_state EXCEPT
                    !.price_history = Append(@, mid_price2),
                    !.cumulative_pnl = @ + calculate_squid_pnl(position, order_depth)]
        bid_price10 == 11 * best_bid - bid_edge10
        ask_price10 == 9 * best_ask + ask_edge10
        bid_qty == Min2(SquidClip, SquidPositionLimit - position)
        ask_qty == Min2(SquidClip, SquidPositionLimit + position)
        quotes == << Order("SQUID_INK", bid_price10, bid_qty),
                     Order("SQUID_INK", ask_price10, -ask_qty) >>
        close_price == IF position > 0 THEN best_bid ELSE best_ask
        rotation ==
            IF position # 0 /\ state.timestamp - seen.last_trade > SquidRiskWindow
            THEN <<Order("SQUID_INK", 10 * close_price, -position)>>
            ELSE <<>>
        updated == [seen EXCEPT
                       !.last_trade = state.timestamp,
                       !.position_history =
                           Append(LastN(@, SquidPositionHistoryCap), position)]
    IN  IF SquidKeys \ squid_state.keys # {}
        THEN \* squid_state["price_history"] of a dict without the key
             [raised |-> TRUE, orders |-> <<>>, trader_data |-> data1]
        ELSE IF seen.cumulative_pnl < 2 * SquidLossThreshold
        THEN [raised |-> FALSE, orders |-> <<>>,
              trader_data |-> [data1 EXCEPT !.squid_state = seen]]
        ELSE [raised |-> FALSE, orders |-> quotes \o rotation,
              trader_data |-> [data1 EXCEPT !.squid_state = updated]]

\* Trader.run on a state without RAINFOREST_RESIN and KELP: the result
\* mapping and the traderData string.  The except clause of run ends the
\* strategies and keeps what result and trader_data hold by then.
SquidTraderRun(state, bid_edge10, ask_edge10) ==
    LET data == IF Len(state.traderData) > 0
                THEN jsonpickle_decode(state.traderData)
                ELSE SquidFreshData
        squid == trade_squid(state, data, bid_edge10, ask_edge10)
    IN  IF "SQUID_INK" \notin DOMAIN state.order_depths
        THEN [result |-> EmptyDict, traderData |-> jsonpickle_encode(data)]
        ELSE IF squid.raised
        THEN [result |-> EmptyDict, traderData |-> jsonpickle_encode(squid.trader_data)]
        ELSE [result |-> "SQUID_INK" :> squid.orders,
              traderData |-> jsonpickle_encode(squid.trader_data)]

\* The SQUID_INK books of the ticks: two-sided, one-sided and empty
SquidBooks == <<
    Book(1849, 10, 1851, 10),
    Book(1900, 5, 1904, 5),
    OrderDepth(1849 :> 10, EmptyDict),
    OrderDepth(EmptyDict, EmptyDict) >>

SquidPositions == {-40, -33, -8, 0, 8, 33, 40}

\* The ticks: SQUID_INK listed with one of the books, or not listed
SquidTicks ==
    { [order_depths |-> "SQUID_INK" :> SquidBooks[b], position |-> "SQUID_INK" :> p] :
          b \in 1..Len(SquidBooks), p \in SquidPositions }
    \cup { [order_depths |-> EmptyDict, position |-> EmptyDict] }

SquidInit ==
    /\ sq_trader_data = <<>>
    /\ sq_result = EmptyDict
    /\ sq_state = [order_depths |-> EmptyDict, position |-> EmptyDict,
                   timestamp |-> 0, traderData |-> <<>>]
    /\ sq_calls = 0

\* One call of Trader.run, on a state that carries the traderData the
\* previous call returned
SquidRun ==
    /\ sq_calls < MaxSquidCalls
    /\ \E t \in SquidTicks, bid_edge10 \in 2..6, ask_edge10 \in 2..6 :
        \E state \in {[order_depths |-> t.order_depths, position |-> t.position,
                       timestamp |-> 100 * sq_calls, traderData |-> sq_trader_data]} :
        \E r \in {SquidTraderRun(state, bid_edge10, ask_edge10)} :
            /\ sq_trader_data' = r.traderData
            /\ sq_result' = r.result
            /\ sq_state' = state
    /\ sq_calls' = sq_calls + 1
    /\ UNCHANGED SqOthers

-----------------------------------------------------------------------------
(* Specifications *)

\* The replay starts from a file of either sign convention; the other
\* components are studied beside a Backtester that stays as constructed
\* for a file of the data model's convention
BtParked == BtInit /\ ask_sign = -1 /\ data_timestamps = Ascending

Init == BtInit /\ R1Init /\ BotInit /\ R2Init /\ T1Init /\ V9Init /\ U9Init
            /\ R3Init /\ SquidInit
InitParked == BtParked /\ R1Init /\ BotInit /\ R2Init /\ T1Init /\ V9Init /\ U9Init
            /\ R3Init /\ SquidInit

Next == RunBacktestTick

\* The replay of a file by run_backtest with the Trader of trade_v9_vwap.py
Spec == Init /\ [][Next]_vars

\* _process_order on its own
NextFill == DirectProcessOrder

SpecFill == Init /\ [][NextFill]_vars

\* The replay of a file with the scenario's RAINFOREST_RESIN rows
NextScenario == ScenarioTick

SpecScenario == Init /\ [][NextScenario]_vars

\* round_1's kelp_strategy over a stream of KELP books
NextKelp == KelpStrategyCall

SpecKelp == InitParked /\ [][NextKelp]_vars

\* fixed_fair_value_orders over the uncrossed books
NextQuote == FixedFairValueCall

SpecQuote == InitParked /\ [][NextQuote]_vars

\* trade_v9.py's dynamic_fair_value_orders over a moving KELP market
NextUnwind == DynamicFairValueCall

SpecUnwind == InitParked /\ [][NextUnwind]_vars

\* round2_v_3's Trader.run over ticks of the picnic products
NextBasket == BasketRun

SpecBasket == InitParked /\ [][NextBasket]_vars

\* round_v_2's Trader.run over ticks of SQUID_INK, each fed the traderData
\* of the one before
NextSquid == SquidRun

SpecSquid == InitParked /\ [][NextSquid]_vars

\* round_1's kelp_strategy over thin books
NextThin == KelpThinCall

SpecThin == InitParked /\ [][NextThin]_vars

\* round_1's resin_strategy on any book and position beside its
\* kelp_strategy over a rising market
NextRound1 == ResinStrategyCall \/ KelpFeed

SpecRound1 == InitParked /\ [][NextRound1]_vars

\* improved_trading_bot's Trader.run over a stream of ticks
NextBot == BotRun

SpecBot == InitParked /\ [][NextBot]_vars

\* the two price windows over rising markets, long enough to overflow
NextWindow == BotFeed \/ KelpFeed

SpecWindow == InitParked /\ [][NextWindow]_vars

\* Trader.run over the rising JAMS market, its first ticks with a traderData
\* it did not write
NextDecode == BotFeed \/ BotForeign

SpecDecode == InitParked /\ [][NextDecode]_vars

\* round2_v_1's trade_picnic_baskets over a stream of ticks
NextPicnic == PicnicBasketsCall

SpecPicnic == InitParked /\ [][NextPicnic]_vars

\* tutorial_round/trade.py's update_ema_prices over a stream of ticks
NextEma == UpdateEmaPrices

SpecEma == InitParked /\ [][NextEma]_vars

-----------------------------------------------------------------------------
(* The replay engine: limit, fill rule, accounting, abort *)

\* C1: when the file's books follow the data model (ask volumes negative in
\* sell_orders), after the fills of every tick each product's position lies
\* within [-50, 50].
C1_LimitInvariant ==
    ask_sign = -1 =>
        \A p \in Products :
            -PositionLimit <= current_positions[p] /\ current_positions[p] <= PositionLimit

\* What the fill rule of the specification expects of one processed order
FillAsSpecified(o) ==
    LET sells == o.depth.sell_orders
        buys == o.depth.buy_orders
        best_ask == SetMin(DOMAIN sells)
        best_bid == SetMax(DOMAIN buys)
    IN  IF o.order.quantity > 0
        THEN /\ o.filled <=> o.order.price >= best_ask
             /\ o.filled =>
                   /\ o.price = best_ask
                   /\ o.quantity = Min2(o.order.quantity, Abs(sells[best_ask]))
                   /\ o.quantity >= 0
        ELSE /\ o.filled <=> o.order.price <= best_bid
             /\ o.filled =>
                   /\ o.price = best_bid
                   /\ o.quantity = Min2(Abs(o.order.quantity), buys[best_bid])
                   /\ o.quantity >= 0

\* C2: every order _process_order handles is filled as the fill rule says: a
\* buy iff its price >= best ask, at the best ask, for min(quantity, size
\* resting at the best ask) >= 0; a sell symmetrically at the best bid;
\* whichever way the ask size is stored.
C2_FillRule ==
    \A i \in 1..Len(last_fills) : FillAsSpecified(last_fills[i])

\* The claim's example: book {bids 99:10, asks 101: size 5 stored as -5} and
\* order (buy, 101, 8) has been processed
C2_ExampleProcessed ==
    /\ ask_sign = -1
    /\ \E i \in 1..Len(last_fills) :
        /\ last_fills[i].order = Order("KELP", 101, 8)
        /\ last_fills[i].depth = OrderDepth(99 :> 10, 101 :> -5)
        /\ last_fills[i].filled

RECURSIVE CashOf(_)
CashOf(h) ==
    IF h = <<>> THEN 0
    ELSE (IF Head(h).side = "buy" THEN -(Head(h).price * Head(h).quantity)
          ELSE Head(h).price * Head(h).quantity) + CashOf(Tail(h))

RECURSIVE NetOf(_, _)
NetOf(h, p) ==
    IF h = <<>> THEN 0
    ELSE (IF Head(h).product # p THEN 0
          ELSE IF Head(h).side = "buy" THEN Head(h).quantity
          ELSE -Head(h).quantity) + NetOf(Tail(h), p)

\* C4: after every tick pnl is the signed cash of the trades in trade_history
\* and each position is the signed quantity of the product's trades, so that
\* nothing but a recorded trade moves either.
C4_Accounting ==
    /\ pnl = CashOf(trade_history)
    /\ \A p \in Products : current_positions[p] = NetOf(trade_history, p)

\* a replay that has recorded a buy and a sell
C4_BothSidesTraded ==
    /\ \E i \in 1..Len(trade_history) : trade_history[i].side = "buy"
    /\ \E i \in 1..Len(trade_history) :
        trade_history[i].side = "sell" /\ trade_history[i].quantity > 0
    /\ pnl # 0

\* C5: run_backtest gets through every timestamp it is given and appends one
\* row for each, whatever the books of the tick.
C5_OneRowPerTick == Len(results) = tick

\* the replay was left by an exception on a tick whose RAINFOREST_RESIN book
\* has no asks
C5_AbortedOnEmptyAsks == aborted /\ Len(results) < tick

-----------------------------------------------------------------------------
(* improved_trading_bot's Trader.run: limits, failures *)

RECURSIVE SumBuys(_)
SumBuys(orders) ==
    IF orders = <<>> THEN 0
    ELSE Max2(Head(orders).quantity, 0) + SumBuys(Tail(orders))

RECURSIVE SumSells(_)
SumSells(orders) ==
    IF orders = <<>> THEN 0
    ELSE Max2(-Head(orders).quantity, 0) + SumSells(Tail(orders))

\* C3: for every product of the order mapping Trader.run returned, the
\* position it was given plus all the buy quantities stays <= the asset limit
\* and the position minus all the sell magnitudes stays >= minus the limit.
C3_AggregateLimit ==
    \A sym \in BotSymbols :
        /\ bot_position[sym] + SumBuys(bot_orders[sym]) <= AssetLimit(sym)
        /\ bot_position[sym] - SumSells(bot_orders[sym]) >= -AssetLimit(sym)

\* Trader.run returned orders for RAINFOREST_RESIN held five short of its
\* limit
C3_ResinNearLimit ==
    /\ bot_position["RAINFOREST_RESIN"] = AssetLimit("RAINFOREST_RESIN") - 5
    /\ bot_orders["RAINFOREST_RESIN"] # <<>>

\* C6: Trader.run returns on every tick, also on one where the policy of a
\* product raises.
C6_RunReturns == ~bot_raised

\* Trader.run was left by the exception of the sunlight policy on the tick
\* of the tenth sunlight sample
C6_RaisedInSunlight ==
    bot_raised /\ Len(sunlight_index_history) = SunlightWindow

-----------------------------------------------------------------------------
(* Rolling windows *)

\* C7: after every call of kelp_strategy that updated the VWAP history, the
\* history is no longer than the vwap_window the call selected (8 or 16).
C7_VwapWindowBound ==
    r1_vwap_window # 0 => Len(r1_kelp_vwap) <= r1_vwap_window

\* the window has switched to 8 with 16 entries in the history
C7_SwitchedWhenFull ==
    r1_vwap_window = VwapWindowVolatile /\ Len(r1_kelp_vwap) = VwapWindowCalm

\* window holds the last Min(cap, Len(fed)) samples of fed, in arrival order
IsMostRecent(window, fed, cap) ==
    /\ Len(window) = Min2(cap, Len(fed))
    /\ \A i \in 1..Len(window) : window[i] = fed[Len(fed) - Len(window) + i]

\* C8: after any number of appended samples the kelp_prices window of
\* round_1 holds the 40 most recent mid prices and the JAMS window of
\* improved_trading_bot the 200 most recent, in arrival order.
C8_WindowsKeepMostRecent ==
    /\ IsMostRecent(r1_kelp_prices, r1_fed, KelpPricesCap)
    /\ IsMostRecent(price_history["JAMS"], jams_fed, PriceHistoryCap)

\* both windows have had more samples than they hold
C8_BothOverflowed ==
    /\ Len(r1_fed) > KelpPricesCap
    /\ Len(jams_fed) > PriceHistoryCap

-----------------------------------------------------------------------------
(* Persisted state *)

C11_ForeignDataTolerated == bot_foreign # 0 => ~bot_raised

\* a run given a text that is no JSON returned, with its price window going on
C11_CorruptSurvived ==
    /\ bot_foreign = 1
    /\ ~bot_raised
    /\ Len(price_history["JAMS"]) = MaxForeignTicks

-----------------------------------------------------------------------------
(* The basket arbitrage of round2_v_1 *)

\* the spread history of basket is full and its standard deviation is 0
FullAndFlat(basket) ==
    LET h == r2_spread_history[basket]
    IN  /\ Len(h) = SpreadWindow
        /\ \A i \in 1..Len(h) : h[i] = h[1]

\* C12: after a call of trade_picnic_baskets that computed the z-score of a
\* basket over a full spread history of standard deviation 0, the z-score is
\* exactly 0 and the call returned no order for the basket.
C12_ZScoreGuard ==
    \A b \in {"PICNIC_BASKET1", "PICNIC_BASKET2"} :
        r2_zscore[b].computed /\ FullAndFlat(b) =>
            /\ ~r2_zscore[b].nan
            /\ r2_zscore[b].sign = 0
            /\ r2_orders[b] = <<>>

\* a z-score computed over twenty equal spreads
C12_FlatHistoryScored ==
    /\ r2_zscore["PICNIC_BASKET1"].computed
    /\ FullAndFlat("PICNIC_BASKET1")
    /\ r2_orders["PICNIC_BASKET1"] = <<>>

-----------------------------------------------------------------------------
(* Mid price with fallback, tutorial_round/trade.py *)

\* the sides of product's book in the last call: absent counts as no side
T1Bids(p) == IF p \in DOMAIN t1_state THEN DOMAIN t1_state[p].buy_orders ELSE {}
T1Asks(p) == IF p \in DOMAIN t1_state THEN DOMAIN t1_state[p].sell_orders ELSE {}

-----------------------------------------------------------------------------
(* The replay engine: scenario, rows, order of the ticks *)

\* the trades of product in trade_history, in order
RECURSIVE TradesOf(_, _)
TradesOf(h, p) ==
    IF h = <<>> THEN <<>>
    ELSE (IF Head(h).product = p THEN <<Head(h)>> ELSE <<>>) \o TradesOf(Tail(h), p)

\* C14: after the three ticks of the scenario, replayed from a file of the
\* data model's convention, the RAINFOREST_RESIN trades are a buy of q1 > 0
\* at 9997 in tick 1 and a sell of q2 > 0 at 10005 in tick 2 and none in
\* tick 3, the position is q1 - q2 and the cash of these trades is
\* -9997 * q1 + 10005 * q2.
C14_Scenario ==
    ask_sign = -1 /\ tick = Len(ScenarioRows) /\ ~aborted =>
        LET trades == TradesOf(trade_history, "RAINFOREST_RESIN")
            keys == GroupKeys(data_timestamps)
        IN  /\ Len(trades) = 2
            /\ trades[1].side = "buy" /\ trades[1].price = 9997
            /\ trades[1].quantity > 0 /\ trades[1].timestamp = keys[1]
            /\ trades[2].side = "sell" /\ trades[2].price = 10005
            /\ trades[2].quantity > 0 /\ trades[2].timestamp = keys[2]
            /\ current_positions["RAINFOREST_RESIN"]
                   = trades[1].quantity - trades[2].quantity
            /\ CashOf(trades) = 10005 * trades[2].quantity - 9997 * trades[1].quantity

\* the scenario replayed to its end, the third tick having had orders and
\* no fill
C14_ScenarioReplayed ==
    /\ ask_sign = -1 /\ tick = Len(ScenarioRows) /\ ~aborted
    /\ last_fills # <<>>
    /\ \A i \in 1..Len(last_fills) :
           last_fills[i].order.symbol = "RAINFOREST_RESIN" => ~last_fills[i].filled

\* C15: the row appended for a tick reports the cash after the fills of that
\* tick, as its position fields report the positions after them.
C15_RowCashAfterFills ==
    Len(results) = tick /\ tick > 0 =>
        LET row == results[Len(results)]
        IN  /\ row.pnl = pnl
            /\ row.RAINFOREST_RESIN_position = current_positions["RAINFOREST_RESIN"]
            /\ row.KELP_position = current_positions["KELP"]

\* a row appended for a tick with a fill
C15_RowOfTickWithFill ==
    /\ Len(results) = tick /\ tick > 0
    /\ \E i \in 1..Len(trade_history) :
           trade_history[i].timestamp = results[Len(results)].timestamp

\* run_backtest has left its loop: every group consumed, or an exception
BtReturned == aborted \/ tick = Len(GroupKeys(data_timestamps))

\* C16: when run_backtest is over, results holds exactly one row for each
\* distinct timestamp of the file, in strictly increasing order of the
\* timestamps, whatever the order of the file's rows.
C16_OneRowPerTimestampInOrder ==
    BtReturned =>
        /\ {results[i].timestamp : i \in 1..Len(results)}
               = {data_timestamps[i] : i \in 1..Len(data_timestamps)}
        /\ \A i, j \in 1..Len(results) :
               i < j => results[i].timestamp < results[j].timestamp

\* a file in decreasing order of the timestamps replayed to its end
C16_DescendingFileReplayed ==
    /\ data_timestamps = Descending
    /\ tick = MaxTicks /\ ~aborted
    /\ Len(results) = MaxTicks
    /\ \A i \in 1..Len(results) : results[i].timestamp = Timestamp(i - 1)

-----------------------------------------------------------------------------
(* improved_trading_bot's policies on one-sided books *)

\* C17: when a book of the tick has an empty side, Trader.run is not left by
\* an exception of a policy, and no product gets a buy order while its book
\* has no asks or a sell order while its book has no bids.
C17_OneSidedBookSkipped ==
    (\E sym \in DOMAIN bot_depths : ~HasBids(bot_depths[sym]) \/ ~HasAsks(bot_depths[sym]))
    => /\ ~bot_raised
       /\ \A sym \in DOMAIN bot_depths :
            /\ ~HasAsks(bot_depths[sym]) => SumBuys(bot_orders[sym]) = 0
            /\ ~HasBids(bot_depths[sym]) => SumSells(bot_orders[sym]) = 0

\* Trader.run on a tick whose CROISSANTS book has no asks was left by an
\* exception
C17_RaisedWithoutAsks ==
    /\ "CROISSANTS" \in DOMAIN bot_depths
    /\ ~HasAsks(bot_depths["CROISSANTS"])
    /\ bot_raised

-----------------------------------------------------------------------------
(* round_1's orders: capacity and prices *)

\* C18: the buy quantities of the orders resin_strategy returned sum to at
\* most limit - position and the sell magnitudes to at most limit + position,
\* and so do those of the orders kelp_strategy returned.
C18_TakeLeavesCapacity ==
    /\ SumBuys(rs_orders) <= PositionLimit - rs_position
    /\ SumSells(rs_orders) <= PositionLimit + rs_position
    /\ SumBuys(r1_orders) <= PositionLimit - r1_position
    /\ SumSells(r1_orders) <= PositionLimit + r1_position

\* resin_strategy returned a liquidity-taking buy and a passive buy
C18_TookAndQuoted ==
    /\ Len(rs_orders) >= 2
    /\ rs_orders[1].quantity > 0
    /\ rs_orders[2].quantity > 0

\* C20: every order resin_strategy returned for fair_value 10000 and width
\* 1.8 has an integer price (a multiple of 10 in tenths), whatever the book.
C20_IntegerPrices ==
    \A i \in 1..Len(rs_orders) : rs_orders[i].price % 10 = 0

\* resin_strategy quoted on a book with no level beyond fair_value +/- width
C20_QuotedWithoutOuterLevel ==
    /\ rs_orders # <<>>
    /\ \A p \in DOMAIN rs_depth.sell_orders : 10 * p <= R1FairValue10 + R1Width10
    /\ \A p \in DOMAIN rs_depth.buy_orders : 10 * p >= R1FairValue10 - R1Width10

-----------------------------------------------------------------------------
(* trade_v9_vwap.py's posted quotes *)

\* C19: on an uncrossed book, every bid fixed_fair_value_orders posts
\* (bbbf + 1) is strictly below the book's best ask, and every ask it posts
\* (baaf - 1) is strictly above the book's best bid.
C19_PostedQuotesInsideBook ==
    \A i \in 1..Len(v9_post) :
        /\ (v9_post[i].quantity > 0 /\ HasAsks(v9_depth))
              => v9_post[i].price < SetMin(DOMAIN v9_depth.sell_orders)
        /\ (v9_post[i].quantity < 0 /\ HasBids(v9_depth))
              => v9_post[i].price > SetMax(DOMAIN v9_depth.buy_orders)

\* a bid was posted beside a liquidity-taking buy on a two-sided book
C19_PostedBesideTake ==
    /\ HasBids(v9_depth) /\ HasAsks(v9_depth)
    /\ \E i \in 1..Len(v9_take) : v9_take[i].quantity > 0
    /\ \E i \in 1..Len(v9_post) : v9_post[i].quantity > 0

-----------------------------------------------------------------------------
(* round2_v_1.py's basket arbitrage orders *)

\* what is left of the limit of product in the direction side (1 to buy,
\* -1 to sell) at the position of the last call
R2Remaining(product, side) ==
    R2PositionLimit(product) - side * PositionOf(r2_state.position, product)

\* C21: a basket order generate_arb_orders emitted sells when z > threshold
\* and buys when z < -threshold, with a magnitude between 1 and
\* min(max_order_size, remaining basket capacity in that direction); so none
\* is emitted when the basket is at or beyond its limit in that direction.
C21_BasketOrderSized ==
    \A b \in DOMAIN r2_arb :
        r2_arb[b].called =>
            LET side == IF r2_zscore[b].sign > 0 THEN -1 ELSE 1
            IN  \A i \in 1..Len(r2_arb[b].basket_orders) :
                    LET q == side * r2_arb[b].basket_orders[i].quantity
                    IN  /\ q >= 1
                        /\ q <= Min2(MaxOrderSize, R2Remaining(b, side))

\* generate_arb_orders was called to buy a basket held at its long limit
C21_SignalAtLimit ==
    \E b \in DOMAIN r2_arb :
        /\ r2_arb[b].called
        /\ r2_zscore[b].sign < 0
        /\ R2Remaining(b, 1) <= 0

\* C22: when generate_arb_orders emitted a basket order of magnitude q >= 1,
\* each component has exactly one order, opposite to the basket order, of
\* magnitude min(weight * q, remaining capacity of the component in that
\* direction) when that is > 0, and no order otherwise.
C22_HedgeLegs ==
    \A b \in DOMAIN r2_arb :
        (r2_arb[b].called /\ Abs(r2_arb[b].basket_orders[1].quantity) >= 1) =>
            LET q == Abs(r2_arb[b].basket_orders[1].quantity)
                side == IF r2_arb[b].basket_orders[1].quantity < 0 THEN 1 ELSE -1
                components == R2Components(b)
            IN  /\ \A i \in 1..Len(components) :
                        LET product == components[i].product
                            expected == Min2(components[i].quantity * q,
                                             R2Remaining(product, side))
                            legs == r2_arb[b].component_orders[product]
                        IN  IF expected > 0
                            THEN /\ Len(legs) = 1
                                 /\ legs[1].quantity = side * expected
                            ELSE legs = <<>>
                /\ \A product \in R2Products :
                        (\A i \in 1..Len(components) : components[i].product # product)
                            => r2_arb[b].component_orders[product] = <<>>

\* a basket order was hedged with a leg cut by the component's capacity and
\* with a component left without a leg
C22_HedgedWithCappedLeg ==
    \E b \in DOMAIN r2_arb :
        /\ r2_arb[b].called
        /\ Abs(r2_arb[b].basket_orders[1].quantity) >= 1
        /\ r2_arb[b].component_orders["JAM"] = <<>>
        /\ Len(r2_arb[b].component_orders["CROISSANT"]) = 1
        /\ r2_arb[b].component_orders["CROISSANT"][1].quantity = 10

\* C24: when both baskets triggered in the same call, the orders
\* trade_picnic_baskets collected for CROISSANT and for JAM keep
\* position + buys <= limit and position - sells >= -limit.
C24_SharedComponentCap ==
    (r2_arb["PICNIC_BASKET1"].called /\ r2_arb["PICNIC_BASKET2"].called) =>
        \A product \in {"CROISSANT", "JAM"} :
            /\ SumBuys(r2_orders[product]) <= R2Remaining(product, 1)
            /\ SumSells(r2_orders[product]) <= R2Remaining(product, -1)

\* both baskets triggered in one call
C24_BothTriggered ==
    /\ r2_arb["PICNIC_BASKET1"].called
    /\ r2_arb["PICNIC_BASKET2"].called
    /\ Len(r2_orders["CROISSANT"]) = 2

-----------------------------------------------------------------------------
(* tutorial_round/trade.py's EMA *)

\* the book of product in the last call has both sides
T1TwoSided(p) == T1Bids(p) # {} /\ T1Asks(p) # {}

\* C25: after the first call of update_ema_prices the EMA of a product whose
\* book showed both sides is that tick's mid price, and after each later
\* call it is 0.5 * mid + 0.5 * the EMA before the call.
C25_EmaFromFirstSample ==
    \A p \in {"RAINFOREST_RESIN", "KELP"} :
        /\ (t1_calls = 1 /\ T1TwoSided(p)) => ema_prices[p] = t1_mid[p]
        /\ t1_calls > 1 => 2 * ema_prices[p] = t1_mid[p] + t1_default[p]

\* the first call saw a two-sided KELP book away from the default price
C25_FirstTickObserved ==
    /\ t1_calls = 1
    /\ T1TwoSided("KELP")
    /\ t1_mid["KELP"] # EmaScale * DefaultPrice

-----------------------------------------------------------------------------
(* round_1.py's KELP fair value *)

\* C27: the fair value of kelp_strategy is floor(sum(vwap * vol) / sum(vol))
\* over the VWAP window when the window's total volume is > 0, and the vwap
\* of the entry just appended when it is 0.
C27_FairValueFallback ==
    r1_kelp_vwap # <<>> =>
        IF SumVol(r1_kelp_vwap) > 0
        THEN /\ r1_fair_value * SumVol(r1_kelp_vwap) <= SumVwapVol(r1_kelp_vwap)
             /\ SumVwapVol(r1_kelp_vwap) < (r1_fair_value + 1) * SumVol(r1_kelp_vwap)
        ELSE r1_fair_value = r1_kelp_vwap[Len(r1_kelp_vwap)].vwap

\* a window of several entries without volume whose latest entry differs
\* from its oldest
C27_WindowWithoutVolume ==
    /\ Len(r1_kelp_vwap) >= 2
    /\ SumVol(r1_kelp_vwap) = 0
    /\ r1_kelp_vwap[Len(r1_kelp_vwap)].vwap # r1_kelp_vwap[1].vwap

-----------------------------------------------------------------------------
(* improved_trading_bot.py's basket orders *)

\* C28: on a tick whose books contain both baskets, the order mapping
\* Trader.run returned has at most one order for each basket, of magnitude 2.
C28_OneBasketOrderPerTick ==
    ({"PICNIC_BASKET1", "PICNIC_BASKET2"} \subseteq DOMAIN bot_depths /\ ~bot_raised)
    => \A b \in {"PICNIC_BASKET1", "PICNIC_BASKET2"} :
           /\ Len(bot_orders[b]) <= 1
           /\ \A i \in 1..Len(bot_orders[b]) : Abs(bot_orders[b][i].quantity) = 2

\* Trader.run returned basket orders on a tick with both baskets
C28_BasketSignalled ==
    /\ {"PICNIC_BASKET1", "PICNIC_BASKET2"} \subseteq DOMAIN bot_depths
    /\ ~bot_raised
    /\ bot_orders["PICNIC_BASKET1"] # <<>>

-----------------------------------------------------------------------------
(* trade_v9.py's forced unwind *)

\* C30: every order of the forced unwind block reduces the absolute
\* position: a buy when position < -40, a sell when position > 40, of a
\* magnitude <= abs(position).
C30_UnwindReduces ==
    \A i \in 1..Len(u9_stop) :
        /\ u9_position < -MaxSoftPosition => u9_stop[i].quantity > 0
        /\ u9_position > MaxSoftPosition => u9_stop[i].quantity < 0
        /\ Abs(u9_stop[i].quantity) <= Abs(u9_position)

\* the forced unwind block emitted an order for a short position
C30_UnwoundShort ==
    /\ u9_stop # <<>>
    /\ u9_position < -MaxSoftPosition

-----------------------------------------------------------------------------
(* round2_v_3.py's hedges and warm-up *)

\* a component has capacity left to be bought (side 1) or sold (side -1)
\* and a resting level on the side such an order hits
R3CanHedge(product, side) ==
    /\ R3PositionLimit(product) - side * PositionOf(r3_state.position, product) > 0
    /\ IF side = 1 THEN HasAsks(r3_state.order_depths[product])
       ELSE HasBids(r3_state.order_depths[product])

\* C23: when trade_baskets emitted a basket order, every component of the
\* basket with remaining capacity and resting liquidity on the side to be
\* hit has a hedge order opposite to the basket order: positive when the
\* basket is sold, negative when it is bought.
C23_HedgeOpposite ==
    \A b \in DOMAIN r3_signal :
        r3_signal[b].side # 0 =>
            LET side == -r3_signal[b].side
                legs == R3BasketLegs(b)
            IN  \A i \in 1..Len(legs) :
                    R3CanHedge(legs[i].product, side) =>
                        /\ legs[i].product \in DOMAIN r3_signal[b].hedge
                        /\ \A j \in 1..Len(r3_signal[b].hedge[legs[i].product]) :
                               side * r3_signal[b].hedge[legs[i].product][j].quantity > 0

\* trade_baskets bought a basket whose components all could be sold
C23_BasketBought ==
    \E b \in DOMAIN r3_signal :
        /\ r3_signal[b].side = 1
        /\ \A i \in 1..Len(R3BasketLegs(b)) : R3CanHedge(R3BasketLegs(b)[i].product, -1)

\* C26: each call of run that showed a component a two-sided book appended
\* a price to its price_history, so the history holds at least
\* min(20, such calls) prices.
C26_WarmUpProgress ==
    \A p \in DOMAIN r3_seen :
        Len(r3_price_history[p]) >= Min2(r3_seen[p], R3BandWindow)

\* a component was shown a two-sided book 20 times
C26_TwentyTicksSeen ==
    \E p \in DOMAIN r3_seen : r3_seen[p] >= R3BandWindow

\* the orders result holds for SQUID_INK
SquidResultOrders ==
    IF "SQUID_INK" \in DOMAIN sq_result THEN sq_result["SQUID_INK"] ELSE <<>>

\* cumulative_pnl of the squid_state in the traderData returned, doubled;
\* a state that never accumulated any has lost nothing
SquidCumulativePnl2 ==
    LET squid_state == jsonpickle_decode(sq_trader_data).squid_state
    IN  IF "cumulative_pnl" \in squid_state.keys THEN squid_state.cumulative_pnl ELSE 0

\* C29: from empty traderData, each tick fed the blob of the one before, a
\* call of run on a tick that lists SQUID_INK with cumulative PnL not below
\* loss_threshold returns for SQUID_INK a bid of min(8, 40 - position) and
\* an ask of min(8, 40 + position)
C29_SquidQuoted ==
    ( /\ sq_calls > 0
      /\ "SQUID_INK" \in DOMAIN sq_state.order_depths
      /\ SquidCumulativePnl2 >= 2 * SquidLossThreshold )
    => LET position == PositionOf(sq_state.position, "SQUID_INK")
       IN  /\ Len(SquidResultOrders) >= 2
           /\ SquidResultOrders[1].quantity = Min2(8, 40 - position)
           /\ SquidResultOrders[2].quantity = -Min2(8, 40 + position)

\* a later call resumed from the blob of the one before on a tick with a
\* two-sided SQUID_INK book
C29_ResumedOnSquidTick ==
    /\ sq_calls >= 2
    /\ Len(sq_state.traderData) > 0
    /\ "SQUID_INK" \in DOMAIN sq_state.order_depths
    /\ HasBids(sq_state.order_depths["SQUID_INK"])
    /\ HasAsks(sq_state.order_depths["SQUID_INK"])
    /\ SquidCumulativePnl2 >= 2 * SquidLossThreshold

====
